---- MODULE Spec2Model ----
(***************************************************************************)
(* A model of the orchestration kernel of AURA-Data-Analyst-Agent:         *)
(*   - the context store   (mcp_server/context_manager.py, ContextManager) *)
(*   - the protocol router (mcp_server/protocol_handler.py)                *)
(*   - the tool registry   (agent_tools/base_tool.py)                      *)
(*   - the decomposition engine (agent_tools/recursive_reasoner.py)        *)
(*   - the agent registries (mcp_server/agent_registry.py, agents/         *)
(*     base_agent.py), an agent's tasks, and the query history of the      *)
(*     database contexts                                                   *)
(* Each component has its own specification; the variables of the other    *)
(* components stay at their initial values under it.                       *)
(***************************************************************************)
EXTENDS Integers, Sequences, FiniteSets, TLC

VARIABLES
    now,                 \* the wall clock, datetime.now(), in whole seconds
    contexts,            \* ContextManager.contexts: an insertion-ordered dict
    last,                \* the last context-store call: its name, arguments, result,
                         \* and (had) the entry stored under its key when it began
    message_handlers,    \* ProtocolHandler.message_handlers
    message_queue,       \* ProtocolHandler.message_queue (the message log)
    processed_messages,  \* ProtocolHandler.processed_messages
    created,             \* messages built by create_message, by message_id
    rpc,                 \* position of the route_message call in progress
    rlast,               \* the last router call: its name, arguments, result
    tools,               \* ToolRegistry.tools: an insertion-ordered dict
    usage_count,         \* AgentTool.usage_count, per tool object
    last_used,           \* AgentTool.last_used, per tool object
    calls,               \* the run() calls awaiting execute(): id, tool, start_time
    started,             \* history: run() calls started per tool object, and the
                         \* clock at the latest start
    tlast,               \* the last registry call: its name, arguments, result
    heap,                \* the AgentContext objects built so far, by object id; with
                         \* concurrent callers ContextManager.contexts holds ids
    frames,              \* per calling thread: the statement it is at, and its locals
    reasoning_history,   \* RecursiveReasoner.reasoning_history
    qlast,               \* the last reason() call: its arguments and outcome
    registry_agents,     \* mcp_server AgentRegistry.agents: an insertion-ordered dict
    alast,               \* the last call of the mcp_server AgentRegistry
    agents,              \* agents AgentRegistry.agents: agent_id to BaseAgent
    agent_types,         \* agents AgentRegistry.agent_types: type to list of ids
    glast,               \* the last call of the agents AgentRegistry
    status,              \* BaseAgent.status of one agent
    tasks,               \* BaseAgent.tasks: an insertion-ordered dict of AgentTask
    running,             \* the run_task calls suspended at await execute_task
    klast,               \* the last run_task step: the call, and what it returned
    database_contexts,   \* ContextManager.database_contexts, by connection_id
    added,               \* history: the queries appended per connection, in order
    dlast                \* the last add_query_to_history call and its outcome

ctx_vars    == <<contexts, last>>
router_vars == <<message_handlers, message_queue, processed_messages, created, rpc, rlast>>
tool_vars   == <<tools, usage_count, last_used, calls, started, tlast>>
conc_vars   == <<heap, frames>>
reason_vars == <<reasoning_history, qlast>>
registry_vars == <<registry_agents, alast>>
agent_vars  == <<agents, agent_types, glast>>
task_vars   == <<status, tasks, running, klast>>
db_vars     == <<database_contexts, added, dlast>>
vars        == <<now, ctx_vars, router_vars, tool_vars, conc_vars, reason_vars,
                 registry_vars, agent_vars, task_vars, db_vars>>

----------------------------------------------------------------------------
(* Bounds of the model *)

\* the clock runs from 0 to MaxTime
MaxTime == 2

\* the message log holds at most MaxQueue messages
MaxQueue == 3

\* at most MaxCalls run() calls are started
MaxCalls == 2

\* the clock of the tool registry runs from 0 to MaxToolTime
MaxToolTime == 1

\* at most MaxAdds queries are added to the history of one database context
MaxAdds == 52

\* the first VariedAdds additions to a history take their query from a set
VariedAdds == 2

\* the list of ids of one agent type holds at most MaxTypeList ids
MaxTypeList == 3

\* at most MaxTasks run_task calls are made on the agent
MaxTasks == 4

\* concurrent callers build at most MaxObjects AgentContext objects
MaxObjects == 2

\* reasoning_history holds at most MaxHistory trees
MaxHistory == 2

----------------------------------------------------------------------------
(* Python values *)

\* Optional[T]: None is the empty tuple, a value v is <<v>>
None == <<>>

Some(v) == <<v>>

\* truth value of an Optional[int]: None and 0 are falsy
TruthyInt(o) == o # None /\ o[1] # 0

\* truth value of an Optional[str]: None and "" are falsy
TruthyStr(o) == o # None /\ o[1] # ""

\* a dict with no keys
EmptyDict == [k \in {} |-> 0]

\* dict.update(other): the keys of other overwrite, the rest stay
DictUpdate(d, other) ==
    [k \in (DOMAIN d) \cup (DOMAIN other) |->
        IF k \in DOMAIN other THEN other[k] ELSE d[k]]

\* An insertion-ordered dict (Python 3.7+) is a sequence of [key, val] items.
ODHas(d, k) == \E i \in 1..Len(d) : d[i].key = k

ODIndex(d, k) == CHOOSE i \in 1..Len(d) : d[i].key = k

\* d.get(k): an Optional
ODGet(d, k) == IF ODHas(d, k) THEN Some(d[ODIndex(d, k)].val) ELSE None

\* d.setdefault(k, v): an existing key keeps its value
ODSet_KeepExisting(d, k, v) ==
    IF ODHas(d, k) THEN d ELSE Append(d, [key |-> k, val |-> v])

\* d[k] = v: an existing key keeps its place
ODSet(d, k, v) ==
    IF ODHas(d, k)
    THEN [d EXCEPT ![ODIndex(d, k)].val = v]
    ELSE Append(d, [key |-> k, val |-> v])

\* del d[k]
ODDel(d, k) == SelectSeq(d, LAMBDA it : it.key # k)

\* list(d.keys())
ODKeys(d) == [i \in 1..Len(d) |-> d[i].key]

\* list(d.values())
ODValues(d) == [i \in 1..Len(d) |-> d[i].val]

\* the elements of a list, as a set
Range(s) == {s[i] : i \in 1..Len(s)}

----------------------------------------------------------------------------
(* Context store: mcp_server/context_manager.py *)

\* (agent_id, session_id, context_type) given to create_context
ContextIds == {<<"a1", "s1", "database">>, <<"a2", "s2", "task">>}

\* context_data given to create_context
CreateData == {[x |-> 1, y |-> 1]}

\* context_data given to update_context: x is overwritten, z is new
UpdateData == {[x |-> 2, z |-> 2]}

\* ttl_seconds given to create_context
TTLs == {None, Some(0), Some(1)}

\* metadata given to create_context
Metadatas == {None}

\* metadata or {}
OrEmptyDict(metadata) ==
    IF metadata # None /\ metadata[1] # EmptyDict THEN metadata[1] ELSE EmptyDict

\* f"{agent_id}:{session_id}:{context_type}"
ContextKey(agent_id, session_id, context_type) ==
    agent_id \o ":" \o session_id \o ":" \o context_type

\* keys a caller may look up: every composite key, and one never created
LookupKeys ==
    {ContextKey(id[1], id[2], id[3]) : id \in ContextIds} \cup {"missing"}

\* AgentContext(...): created_at and updated_at default to datetime.now()
AgentContext(agent_id, session_id, context_type, context_data, metadata, ttl_seconds) ==
    [agent_id |-> agent_id, session_id |-> session_id, context_type |-> context_type,
     context_data |-> context_data, metadata |-> metadata,
     created_at |-> now, updated_at |-> now, ttl_seconds |-> ttl_seconds]

\* the expiry test of get_context, list_contexts and clear_expired_contexts:
\*   if context.ttl_seconds: age = (now - created_at); if age > ttl_seconds
IsExpired(context) ==
    /\ TruthyInt(context.ttl_seconds)
    /\ now - context.created_at > context.ttl_seconds[1]

\* get_context: what it returns
GetContextResult(context_key) ==
    LET context == ODGet(contexts, context_key)
    IN  IF context # None /\ IsExpired(context[1]) THEN None ELSE context

\* get_context: the store it leaves
GetContextStore(context_key) ==
    LET context == ODGet(contexts, context_key)
    IN  IF context # None /\ IsExpired(context[1])
        THEN ODDel(contexts, context_key)
        ELSE contexts

\* the clock advances
Tick ==
    /\ now < MaxTime
    /\ now' = now + 1
    /\ last' = [op |-> "tick"]
    /\ UNCHANGED <<registry_vars, agent_vars, task_vars, db_vars,
                   contexts, router_vars, tool_vars, conc_vars, reason_vars>>

CreateContext ==
    \E id \in ContextIds, context_data \in CreateData, metadata \in Metadatas,
       ttl_seconds \in TTLs :
        LET context_key == ContextKey(id[1], id[2], id[3])
            context == AgentContext(id[1], id[2], id[3], context_data,
                                    OrEmptyDict(metadata), ttl_seconds)
        IN  /\ contexts' = ODSet(contexts, context_key, context)
            /\ last' = [op |-> "create", key |-> context_key, ret |-> context_key,
                        agent_id |-> id[1], session_id |-> id[2], context_type |-> id[3],
                        data |-> context_data, ttl |-> ttl_seconds,
                        replaced |-> ODHas(contexts, context_key)]
            /\ UNCHANGED <<registry_vars, agent_vars, task_vars, db_vars,
                           now, router_vars, tool_vars, conc_vars, reason_vars>>

GetContext ==
    \E context_key \in LookupKeys :
        /\ contexts' = GetContextStore(context_key)
        /\ last' = [op |-> "get", key |-> context_key,
                    had |-> ODGet(contexts, context_key),
                    ret |-> GetContextResult(context_key)]
        /\ UNCHANGED <<registry_vars, agent_vars, task_vars, db_vars,
                       now, router_vars, tool_vars, conc_vars, reason_vars>>

\* update_context with the merge flag ignored
UpdatedData_AlwaysMerge(context, context_data, merge) ==
    DictUpdate(context.context_data, context_data)

\* update_context: the data it stores
UpdatedData(context, context_data, merge) ==
    IF merge THEN DictUpdate(context.context_data, context_data) ELSE context_data

UpdateContext ==
    \E context_key \in LookupKeys, context_data \in UpdateData, merge \in BOOLEAN :
        LET context == GetContextResult(context_key)
            store   == GetContextStore(context_key)
        IN  /\ contexts' =
                  IF context = None THEN store
                  ELSE ODSet(store, context_key,
                             [context[1] EXCEPT
                                 !.context_data = UpdatedData(context[1], context_data, merge),
                                 !.updated_at = now])
            /\ last' = [op |-> "update", key |-> context_key, data |-> context_data,
                        merge |-> merge, had |-> ODGet(contexts, context_key),
                        ret |-> (context # None)]
            /\ UNCHANGED <<registry_vars, agent_vars, task_vars, db_vars,
                           now, router_vars, tool_vars, conc_vars, reason_vars>>

DeleteContext ==
    \E context_key \in LookupKeys :
        /\ contexts' = ODDel(contexts, context_key)
        /\ last' = [op |-> "delete", key |-> context_key,
                    ret |-> ODHas(contexts, context_key)]
        /\ UNCHANGED <<registry_vars, agent_vars, task_vars, db_vars,
                       now, router_vars, tool_vars, conc_vars, reason_vars>>

\* filters given to list_contexts
ListFilters ==
    {<<None, None, None>>, <<Some("a1"), None, None>>, <<Some(""), Some("s2"), None>>,
     <<None, Some("s1"), Some("task")>>}

\* list_contexts: whether a stored context is returned
Listed(context, agent_id, session_id, context_type) ==
    /\ ~IsExpired(context)
    /\ ~(TruthyStr(agent_id) /\ context.agent_id # agent_id[1])
    /\ ~(TruthyStr(session_id) /\ context.session_id # session_id[1])
    /\ ~(TruthyStr(context_type) /\ context.context_type # context_type[1])

ListContexts ==
    \E f \in ListFilters :
        /\ last' = [op |-> "list", filters |-> f,
                    ret |-> SelectSeq(ODValues(contexts),
                               LAMBDA c : Listed(c, f[1], f[2], f[3]))]
        /\ UNCHANGED <<registry_vars, agent_vars, task_vars, db_vars,
                       now, contexts, router_vars, tool_vars, conc_vars, reason_vars>>

\* clear_expired_contexts: the keys it collects, in the order of the dict
ExpiredKeys ==
    SelectSeq(ODKeys(contexts), LAMBDA key : IsExpired(ODGet(contexts, key)[1]))

ClearExpired ==
    LET expired_keys == ExpiredKeys
    IN  /\ contexts' = SelectSeq(contexts, LAMBDA it : it.key \notin Range(expired_keys))
        /\ last' = [op |-> "clear_expired", ret |-> Len(expired_keys)]
        /\ UNCHANGED <<registry_vars, agent_vars, task_vars, db_vars,
                       now, router_vars, tool_vars, conc_vars, reason_vars>>

CtxInit ==
    /\ now = 0
    /\ contexts = <<>>
    /\ last = [op |-> "init"]

CtxNext ==
    \/ Tick
    \/ CreateContext
    \/ GetContext
    \/ UpdateContext
    \/ DeleteContext
    \/ ListContexts
    \/ ClearExpired


----------------------------------------------------------------------------
(* Protocol router: mcp_server/protocol_handler.py *)

\* MessageType: the values of the enumeration
MessageTypes ==
    {"context_request", "context_response", "context_update", "tool_call",
     "tool_response", "agent_handoff", "error"}

\* ProtocolHandler.__init__ with a handler for every message type
DefaultHandlers_AllTypes ==
    [t \in MessageTypes |-> "_handle_" \o t]

\* ProtocolHandler.__init__: the handler table
DefaultHandlers ==
    [t \in {"context_request", "context_update", "tool_call", "agent_handoff"} |->
        "_handle_" \o t]

\* message ids, in the order uuid4() hands them out
MessageIds == <<"m1", "m2">>

\* payloads given to create_message
Payloads ==
    {EmptyDict,
     [context_type |-> "database", tool_name |-> "query_database",
      target_agent_id |-> "a2", task_description |-> "analyse"]}

\* the required fields of the pydantic model each handler builds from the payload
RequiredFields(handler) ==
    CASE handler = "_handle_context_request" -> {"context_type"}
      [] handler = "_handle_tool_call"       -> {"tool_name"}
      [] handler = "_handle_agent_handoff"   -> {"target_agent_id", "task_description"}
      [] OTHER                               -> {}

\* whether the handler raises (a pydantic ValidationError) on the message
HandlerRaises(handler, message) ==
    ~(RequiredFields(handler) \subseteq DOMAIN message.payload)

\* str(e) of the failure
HandlerError(handler, message) ==
    "validation error: field required: "
        \o (CHOOSE f \in RequiredFields(handler) : f \notin DOMAIN message.payload)

\* the dict the handler returns
HandlerResult(handler, message) ==
    CASE handler = "_handle_context_request" ->
            [message_type |-> "context_response",
             context_type |-> message.payload.context_type]
      [] handler = "_handle_context_update" ->
            [message_type |-> "context_update_ack", updated |-> TRUE]
      [] handler = "_handle_tool_call" ->
            [message_type |-> "tool_response", tool_name |-> message.payload.tool_name]
      [] handler = "_handle_agent_handoff" ->
            [message_type |-> "handoff_ack",
             target_agent |-> message.payload.target_agent_id, task_queued |-> TRUE]

\* message_handlers.get(message_type)
LookupHandler(message_type) ==
    IF message_type \in DOMAIN message_handlers
    THEN Some(message_handlers[message_type]) ELSE None

\* create_message: builds a message with a fresh id; it is not routed
CreateMessage ==
    \E message_type \in MessageTypes, session_id \in {"s1", "s2"}, payload \in Payloads :
        /\ rpc = "idle"
        /\ Len(created) < Len(MessageIds)
        /\ LET message == [message_id |-> MessageIds[Len(created) + 1],
                           message_type |-> message_type, sender_id |-> "a1",
                           recipient_id |-> None, session_id |-> session_id,
                           payload |-> payload, metadata |-> EmptyDict]
           IN  /\ created' = Append(created, message)
               /\ rlast' = [op |-> "create", ret |-> message]
        /\ UNCHANGED <<registry_vars, agent_vars, task_vars, db_vars,
                       now, ctx_vars, tool_vars, conc_vars, reason_vars,
                       message_handlers, message_queue,
                       processed_messages, rpc>>

\* route_message with the append made whether or not a handler was found
QueueAfterLookup_AppendFirst(handler, message) ==
    Append(message_queue, message)

\* route_message with no append before the handler runs
QueueAfterLookup_NoAppend(handler, message) ==
    message_queue

\* route_message, lines 107-116: the log after the handler lookup
QueueAfterLookup(handler, message) ==
    IF handler = None THEN message_queue ELSE Append(message_queue, message)

\* route_message up to the handler's invocation: without a handler it returns
\* the error result; with one it appends the message to the log and calls it
RouteMessage ==
    \E i \in 1..Len(created) :
        LET message == created[i]
            handler == LookupHandler(message.message_type)
        IN  /\ rpc = "idle"
            /\ handler # None => Len(message_queue) < MaxQueue
            /\ message_queue' = QueueAfterLookup(handler, message)
            /\ IF handler = None
               THEN /\ rpc' = "idle"
                    /\ rlast' = [op |-> "route", msg |-> message, handler |-> None,
                                 raised |-> FALSE,
                                 log_before |-> message_queue,
                                 processed_before |-> processed_messages,
                                 ret |-> [success |-> FALSE,
                                          error |-> "No handler for message type: "
                                                        \o message.message_type]]
               ELSE /\ rpc' = "handler"
                    /\ rlast' = [op |-> "routing", msg |-> message, handler |-> handler,
                                 log_before |-> message_queue,
                                 processed_before |-> processed_messages]
            /\ UNCHANGED <<registry_vars, agent_vars, task_vars, db_vars,
                           now, ctx_vars, tool_vars, conc_vars, reason_vars,
                           message_handlers,
                           processed_messages, created>>

\* route_message with the id recorded whatever the handler did
ProcessedAfterHandler_Always(handler, message) ==
    Append(processed_messages, message.message_id)

\* route_message, lines 119-132: the processed ids after the handler ran
ProcessedAfterHandler(handler, message) ==
    IF HandlerRaises(handler, message)
    THEN processed_messages
    ELSE Append(processed_messages, message.message_id)

\* route_message from the handler's invocation to the return
RouteHandler ==
    /\ rpc = "handler"
    /\ LET message == rlast.msg
           handler == rlast.handler[1]
       IN  /\ processed_messages' = ProcessedAfterHandler(handler, message)
           /\ rlast' = [op |-> "route", msg |-> message, handler |-> rlast.handler,
                        raised |-> HandlerRaises(handler, message),
                        log_before |-> rlast.log_before,
                        processed_before |-> rlast.processed_before,
                        ret |-> IF HandlerRaises(handler, message)
                                THEN [success |-> FALSE,
                                      error |-> HandlerError(handler, message),
                                      message_id |-> message.message_id]
                                ELSE [success |-> TRUE,
                                      result |-> HandlerResult(handler, message),
                                      message_id |-> message.message_id]]
    /\ rpc' = "idle"
    /\ UNCHANGED <<registry_vars, agent_vars, task_vars, db_vars,
                   now, ctx_vars, tool_vars, conc_vars, reason_vars,
                   message_handlers, message_queue, created>>

\* session_id given to get_message_queue; the endpoint passes the query
\* parameter on, which is None when left out and may be the empty string
QueueSessions == {None, Some(""), Some("s1"), Some("s2")}

\* get_message_queue: the truthiness test on session_id, then the filter
GetMessageQueue ==
    \E session_id \in QueueSessions :
        /\ rpc = "idle"
        /\ rlast' = [op |-> "get_queue", session_id |-> session_id,
                     ret |-> IF TruthyStr(session_id)
                             THEN SelectSeq(message_queue,
                                      LAMBDA msg : msg.session_id = session_id[1])
                             ELSE message_queue]
        /\ UNCHANGED <<registry_vars, agent_vars, task_vars, db_vars,
                       now, ctx_vars, tool_vars, conc_vars, reason_vars,
                       message_handlers, message_queue, processed_messages,
                       created, rpc>>

\* older_than_count given to clear_processed_messages; 1000 is the default
KeepCounts == {0, 1, 2, 1000}

\* list[-n:] for n >= 0: -0 is 0, so the slice starts at the front of the list
SliceLast(list, n) ==
    IF n = 0 THEN list
    ELSE SubSeq(list, (IF Len(list) > n THEN Len(list) - n ELSE 0) + 1, Len(list))

\* clear_processed_messages: the processed ids it leaves
TrimmedProcessed(older_than_count) ==
    IF Len(processed_messages) > older_than_count
    THEN SliceLast(processed_messages, older_than_count)
    ELSE processed_messages

ClearProcessedMessages ==
    \E older_than_count \in KeepCounts :
        /\ rpc = "idle"
        /\ processed_messages' = TrimmedProcessed(older_than_count)
        /\ rlast' = [op |-> "clear_processed", older_than_count |-> older_than_count,
                     processed_before |-> processed_messages]
        /\ UNCHANGED <<registry_vars, agent_vars, task_vars, db_vars,
                       now, ctx_vars, tool_vars, conc_vars, reason_vars,
                       message_handlers, message_queue, created, rpc>>

\* get_protocol_stats: counts over the log and the processed ids
GetProtocolStats ==
    /\ rpc = "idle"
    /\ LET types == {message_queue[i].message_type : i \in 1..Len(message_queue)}
       IN  rlast' = [op |-> "stats",
                     ret |-> [total_messages |-> Len(message_queue),
                              processed_messages |-> Len(processed_messages),
                              message_types |->
                                  [t \in types |->
                                      Cardinality({i \in 1..Len(message_queue) :
                                          message_queue[i].message_type = t})],
                              active_sessions |->
                                  Cardinality({message_queue[i].session_id :
                                                  i \in 1..Len(message_queue)})]]
    /\ UNCHANGED <<registry_vars, agent_vars, task_vars, db_vars,
                   now, ctx_vars, tool_vars, conc_vars, reason_vars,
                   message_handlers, message_queue, processed_messages, created, rpc>>

RouterNext ==
    \/ CreateMessage
    \/ RouteMessage
    \/ RouteHandler
    \/ GetMessageQueue
    \/ ClearProcessedMessages
    \/ GetProtocolStats

----------------------------------------------------------------------------
(* Tool registry: agent_tools/base_tool.py *)

\* tool objects; T1 and T2 carry the same name
ToolObjects == {"T1", "T2", "T3"}

\* AgentTool.name
ToolName(tool) == IF tool = "T3" THEN "beta" ELSE "alpha"

\* names a caller may invoke; "gamma" is never registered
InvokeNames == {"alpha", "beta", "gamma"}

\* what a tool's execute() may do: return a result, return something that is no
\* ToolExecutionResult, or raise an Exception
ExecuteOutcomes ==
    {[kind |-> "result", success |-> TRUE, error |-> None],
     [kind |-> "not_a_result"],
     [kind |-> "raise", message |-> "connection lost"]}

\* datetime.isoformat() of the clock's values
IsoFormat(t) ==
    "2024-01-01T00:00:0" \o <<"0", "1", "2", "3", "4", "5", "6", "7", "8", "9">>[t + 1]

\* the clock advances
ToolTick ==
    /\ now < MaxToolTime
    /\ now' = now + 1
    /\ tlast' = [op |-> "tick"]
    /\ UNCHANGED <<registry_vars, agent_vars, task_vars, db_vars,
                   ctx_vars, router_vars, conc_vars, reason_vars,
                   tools, usage_count, last_used, calls, started>>

\* ToolRegistry.register
Register ==
    \E tool \in ToolObjects :
        /\ tools' = ODSet(tools, ToolName(tool), tool)
        /\ tlast' = [op |-> "register", tool |-> tool]
        /\ UNCHANGED <<registry_vars, agent_vars, task_vars, db_vars,
                       now, ctx_vars, router_vars, conc_vars, reason_vars,
                       usage_count, last_used, calls, started>>

\* ToolRegistry.unregister
Unregister ==
    \E tool_name \in InvokeNames :
        /\ tools' = ODDel(tools, tool_name)
        /\ tlast' = [op |-> "unregister", name |-> tool_name,
                     ret |-> ODHas(tools, tool_name)]
        /\ UNCHANGED <<registry_vars, agent_vars, task_vars, db_vars,
                       now, ctx_vars, router_vars, conc_vars, reason_vars,
                       usage_count, last_used, calls, started>>

\* get_tool_names returning nothing
GetToolNames_Empty == <<>>

\* ToolRegistry.get_tool_names
GetToolNames == ODKeys(tools)

\* AgentTool.run without the increment
UsageAfterRunStart_NoCount(tool) == usage_count

\* AgentTool.run, line 80: self.usage_count += 1
UsageAfterRunStart(tool) == [usage_count EXCEPT ![tool] = @ + 1]

\* AgentTool.run, lines 79 and 81: self.last_used = start_time.isoformat()
LastUsedAfterRunStart(tool) == [last_used EXCEPT ![tool] = Some(IsoFormat(now))]

\* history: the number of run() calls started so far
CallsStarted == started["T1"].n + started["T2"].n + started["T3"].n

\* execute_tool up to the await of the tool's execute(): an unknown name returns the
\* not-found result; a known one starts run(), which counts the call and waits
ExecuteTool ==
    \E tool_name \in InvokeNames :
        LET tool == ODGet(tools, tool_name)
        IN  IF tool = None
            THEN /\ tlast' = [op |-> "execute", name |-> tool_name, tool |-> None,
                              usage_before |-> usage_count, used_before |-> last_used,
                              out |-> [kind |-> "return",
                                       value |-> [success |-> FALSE, data |-> None,
                                                  error |-> Some("Tool '" \o tool_name
                                                                    \o "' not found"),
                                                  execution_time_ms |-> None,
                                                  metadata |->
                                                    [available_tools |-> GetToolNames]]]]
                 /\ UNCHANGED <<registry_vars, agent_vars, task_vars, db_vars,
                                now, ctx_vars, router_vars, conc_vars, reason_vars,
                                tools, usage_count,
                                last_used, calls, started>>
            ELSE /\ CallsStarted < MaxCalls
                 /\ usage_count' = UsageAfterRunStart(tool[1])
                 /\ last_used' = LastUsedAfterRunStart(tool[1])
                 /\ calls' = calls \cup {[id |-> CallsStarted + 1, tool |-> tool[1],
                                           start_time |-> now]}
                 /\ started' = [started EXCEPT ![tool[1]] =
                                    [n |-> @.n + 1, at |-> Some(now)]]
                 /\ tlast' = [op |-> "run", name |-> tool_name, tool |-> tool]
                 /\ UNCHANGED <<registry_vars, agent_vars, task_vars, db_vars,
                                now, ctx_vars, router_vars, conc_vars, reason_vars,
                                tools>>

\* AgentTool.run with the handler's failure passed on to the caller
RunOutcome_Propagates(tool, start_time, outcome) ==
    IF outcome.kind = "result"
    THEN [kind |-> "return",
          value |-> [success |-> outcome.success, data |-> None, error |-> outcome.error,
                     execution_time_ms |-> Some((now - start_time) * 1000),
                     metadata |-> EmptyDict]]
    ELSE [kind |-> "raise", message |-> "handler failure"]

\* AgentTool.run, lines 83-96: what the call gives its caller
RunOutcome(tool, start_time, outcome) ==
    CASE outcome.kind = "result" ->
            [kind |-> "return",
             value |-> [success |-> outcome.success, data |-> None,
                        error |-> outcome.error,
                        execution_time_ms |-> Some((now - start_time) * 1000),
                        metadata |-> EmptyDict]]
      [] outcome.kind = "not_a_result" ->
            [kind |-> "return",
             value |-> [success |-> FALSE, data |-> None,
                        error |-> Some("'NoneType' object has no attribute 'execution_time_ms'"),
                        execution_time_ms |-> Some((now - start_time) * 1000),
                        metadata |-> [tool_name |-> ToolName(tool)]]]
      [] outcome.kind = "raise" ->
            [kind |-> "return",
             value |-> [success |-> FALSE, data |-> None,
                        error |-> Some(outcome.message),
                        execution_time_ms |-> Some((now - start_time) * 1000),
                        metadata |-> [tool_name |-> ToolName(tool)]]]

\* the tool's execute() finishes and run() returns to execute_tool's caller
RunReturn ==
    \E c \in calls, outcome \in ExecuteOutcomes :
        /\ calls' = calls \ {c}
        /\ tlast' = [op |-> "execute", name |-> ToolName(c.tool),
                     tool |-> Some(c.tool), outcome |-> outcome,
                     out |-> RunOutcome(c.tool, c.start_time, outcome)]
        /\ UNCHANGED <<registry_vars, agent_vars, task_vars, db_vars,
                       now, ctx_vars, router_vars, conc_vars, reason_vars,
                       tools, usage_count, last_used, started>>

\* MCPTool.execute (mcp_server/base.py): the handler's failure becomes a result
MCPToolExecute(outcome) ==
    IF outcome.kind = "raise"
    THEN [kind |-> "return",
          value |-> [success |-> FALSE, error |-> Some(outcome.message)]]
    ELSE [kind |-> "return", value |-> [success |-> TRUE, error |-> None]]

\* MCPServer.call_tool on a registered tool
CallTool ==
    \E outcome \in ExecuteOutcomes :
        /\ tlast' = [op |-> "call_tool", outcome |-> outcome,
                     out |-> MCPToolExecute(outcome)]
        /\ UNCHANGED <<registry_vars, agent_vars, task_vars, db_vars,
                       now, ctx_vars, router_vars, conc_vars, reason_vars,
                       tools, usage_count, last_used,
                       calls, started>>

\* Tool.execute (mcp_server/tool_registry.py): a missing required parameter or a
\* failure of the handler is raised again, wrapped
ToolExecute(has_required, outcome) ==
    IF ~has_required
    THEN [kind |-> "raise",
          message |-> "Tool execution failed: Missing required parameter: connection_id"]
    ELSE IF outcome.kind = "raise"
    THEN [kind |-> "raise", message |-> "Tool execution failed: " \o outcome.message]
    ELSE [kind |-> "return", value |-> outcome]

\* the /tools/execute endpoint (mcp_server/main.py), the caller of Tool.execute:
\* it turns what Tool.execute raises into a response with status "error"
ExecuteToolEndpoint ==
    \E has_required \in BOOLEAN, outcome \in ExecuteOutcomes :
        LET r == ToolExecute(has_required, outcome)
        IN  /\ tlast' = [op |-> "endpoint", outcome |-> outcome,
                         has_required |-> has_required,
                         out |-> [kind |-> "return",
                                  value |-> IF r.kind = "raise"
                                            THEN [status |-> "error",
                                                  error |-> Some(r.message)]
                                            ELSE [status |-> "success",
                                                  error |-> None]]]
            /\ UNCHANGED <<registry_vars, agent_vars, task_vars, db_vars,
                           now, ctx_vars, router_vars, conc_vars, reason_vars,
                           tools, usage_count, last_used,
                           calls, started>>

ToolNext ==
    \/ ToolTick
    \/ Register
    \/ Unregister
    \/ ExecuteTool
    \/ RunReturn
    \/ CallTool
    \/ ExecuteToolEndpoint

----------------------------------------------------------------------------
(* Context store with concurrent callers: mcp_server/context_manager.py.      *)
(* ContextManager holds no lock. A calling thread can be preempted between    *)
(* two statements of a method; each statement is one step. The dict holds     *)
(* references: contexts maps a key to the id of an object in heap.            *)

\* the calling threads
ConcThreads == {"t1", "t2"}

\* (agent_id, session_id, context_type) the threads use: one and the same key
ConcId == <<"a1", "s1", "database">>

\* ttl_seconds the threads give to create_context
ConcTTLs == {None, Some(1)}

\* create_context: one statement builds the object (local to the thread), one
\* stores its reference, and the key is returned
ThreadCreate(t) ==
    /\ frames[t].pc = "idle"
    /\ Len(heap) < MaxObjects
    /\ \E context_data \in CreateData, ttl_seconds \in ConcTTLs :
          LET context_key == ContextKey(ConcId[1], ConcId[2], ConcId[3])
              context == AgentContext(ConcId[1], ConcId[2], ConcId[3], context_data,
                                      OrEmptyDict(None), ttl_seconds)
          IN  /\ heap' = Append(heap, context)
              /\ contexts' = ODSet(contexts, context_key, Len(heap) + 1)
              /\ last' = [op |-> "create", thread |-> t, key |-> context_key,
                          out |-> [kind |-> "return", value |-> context_key]]
    /\ UNCHANGED <<registry_vars, agent_vars, task_vars, db_vars,
                   now, frames, router_vars, tool_vars, reason_vars>>

\* get_context, first statement: context = self.contexts.get(context_key)
ThreadGetRead(t) ==
    /\ frames[t].pc = "idle"
    /\ \E context_key \in {ContextKey(ConcId[1], ConcId[2], ConcId[3])} :
          frames' = [frames EXCEPT ![t] = [pc |-> "get_check", key |-> context_key,
                                           context |-> ODGet(contexts, context_key)]]
    /\ last' = [op |-> "step", thread |-> t]
    /\ UNCHANGED <<registry_vars, agent_vars, task_vars, db_vars,
                   now, contexts, heap, router_vars, tool_vars, reason_vars>>

\* get_context, the rest: the expiry test on the object read, and the return
ThreadGetReturn(t) ==
    /\ frames[t].pc = "get_check"
    /\ LET context == frames[t].context
           expired == context # None /\ IsExpired(heap[context[1]])
       IN  /\ contexts' = IF expired THEN ODDel(contexts, frames[t].key) ELSE contexts
           /\ last' = [op |-> "get", thread |-> t, key |-> frames[t].key,
                       out |-> IF expired /\ ~ODHas(contexts, frames[t].key)
                               THEN [kind |-> "raise", message |-> "KeyError"]
                               ELSE [kind |-> "return",
                                     value |-> IF expired THEN None ELSE context]]
    /\ frames' = [frames EXCEPT ![t] = [pc |-> "idle"]]
    /\ UNCHANGED <<registry_vars, agent_vars, task_vars, db_vars,
                   now, heap, router_vars, tool_vars, reason_vars>>

\* update_context, first statements: context = self.get_context(context_key);
\* if not context: return False
ThreadUpdateRead(t) ==
    /\ frames[t].pc = "idle"
    /\ \E context_key \in {ContextKey(ConcId[1], ConcId[2], ConcId[3])},
          context_data \in UpdateData, merge \in BOOLEAN :
          LET stored == ODGet(contexts, context_key)
              expired == stored # None /\ IsExpired(heap[stored[1]])
              context == IF expired THEN None ELSE stored
          IN  /\ contexts' = IF expired THEN ODDel(contexts, context_key) ELSE contexts
              /\ IF context = None
                 THEN /\ last' = [op |-> "update", thread |-> t, key |-> context_key,
                                  data |-> context_data, merge |-> merge,
                                  out |-> [kind |-> "return", value |-> FALSE]]
                      /\ UNCHANGED frames
                 ELSE /\ last' = [op |-> "step", thread |-> t]
                      /\ frames' = [frames EXCEPT ![t] =
                                       [pc |-> "update_data", key |-> context_key,
                                        context |-> context[1], data |-> context_data,
                                        merge |-> merge]]
    /\ UNCHANGED <<registry_vars, agent_vars, task_vars, db_vars,
                   now, heap, router_vars, tool_vars, reason_vars>>

\* update_context, next statement: context.context_data.update(context_data), or
\* context.context_data = context_data, on the object the thread holds
ThreadUpdateData(t) ==
    /\ frames[t].pc = "update_data"
    /\ heap' = [heap EXCEPT ![frames[t].context].context_data =
                    UpdatedData(heap[frames[t].context], frames[t].data, frames[t].merge)]
    /\ frames' = [frames EXCEPT ![t].pc = "update_return"]
    /\ last' = [op |-> "step", thread |-> t]
    /\ UNCHANGED <<registry_vars, agent_vars, task_vars, db_vars,
                   now, contexts, router_vars, tool_vars, reason_vars>>

\* update_context, the rest: context.updated_at = datetime.now(); return True
ThreadUpdateReturn(t) ==
    /\ frames[t].pc = "update_return"
    /\ heap' = [heap EXCEPT ![frames[t].context].updated_at = now]
    /\ last' = [op |-> "update", thread |-> t, key |-> frames[t].key,
                data |-> frames[t].data, merge |-> frames[t].merge,
                out |-> [kind |-> "return", value |-> TRUE]]
    /\ frames' = [frames EXCEPT ![t] = [pc |-> "idle"]]
    /\ UNCHANGED <<registry_vars, agent_vars, task_vars, db_vars,
                   now, contexts, router_vars, tool_vars, reason_vars>>

\* delete_context, first statement: if context_key in self.contexts; return
\* False when it is not
ThreadDeleteTest(t) ==
    /\ frames[t].pc = "idle"
    /\ \E context_key \in {ContextKey(ConcId[1], ConcId[2], ConcId[3])} :
          IF ODHas(contexts, context_key)
          THEN /\ frames' = [frames EXCEPT ![t] =
                                [pc |-> "delete_del", key |-> context_key,
                                 on_expired |->
                                     IsExpired(heap[ODGet(contexts, context_key)[1]])]]
               /\ last' = [op |-> "step", thread |-> t]
          ELSE /\ last' = [op |-> "delete", thread |-> t, key |-> context_key,
                           on_expired |-> FALSE,
                           out |-> [kind |-> "return", value |-> FALSE]]
               /\ UNCHANGED frames
    /\ UNCHANGED <<registry_vars, agent_vars, task_vars, db_vars,
                   now, contexts, heap, router_vars, tool_vars, reason_vars>>

\* delete_context, the rest: del self.contexts[context_key]; return True.
\* del raises KeyError when the key is no longer there.
ThreadDeleteDel(t) ==
    /\ frames[t].pc = "delete_del"
    /\ contexts' = ODDel(contexts, frames[t].key)
    /\ last' = [op |-> "delete", thread |-> t, key |-> frames[t].key,
                on_expired |-> frames[t].on_expired,
                out |-> IF ODHas(contexts, frames[t].key)
                        THEN [kind |-> "return", value |-> TRUE]
                        ELSE [kind |-> "raise", message |-> "KeyError"]]
    /\ frames' = [frames EXCEPT ![t] = [pc |-> "idle"]]
    /\ UNCHANGED <<registry_vars, agent_vars, task_vars, db_vars,
                   now, heap, router_vars, tool_vars, reason_vars>>

\* clear_expired_contexts, the first loop: the expired keys are collected; with
\* none collected the second loop does nothing and 0 is returned
ThreadClearCollect(t) ==
    /\ frames[t].pc = "idle"
    /\ LET expired_keys == SelectSeq(ODKeys(contexts),
                               LAMBDA key : IsExpired(heap[ODGet(contexts, key)[1]]))
       IN  IF expired_keys = <<>>
           THEN /\ last' = [op |-> "clear_expired", thread |-> t,
                            out |-> [kind |-> "return", value |-> 0]]
                /\ UNCHANGED frames
           ELSE /\ last' = [op |-> "step", thread |-> t]
                /\ frames' = [frames EXCEPT ![t] =
                                 [pc |-> "clear_del", expired_keys |-> expired_keys]]
    /\ UNCHANGED <<now, contexts, heap, router_vars, tool_vars, reason_vars,
                   registry_vars, agent_vars, task_vars, db_vars>>

\* clear_expired_contexts, the second loop and the return; the threads use one
\* key, so the loop has one turn: del self.contexts[key], which raises KeyError
\* when the key is no longer there
ThreadClearDel(t) ==
    /\ frames[t].pc = "clear_del"
    /\ LET key == frames[t].expired_keys[1]
       IN  /\ contexts' = ODDel(contexts, key)
           /\ last' = [op |-> "clear_expired", thread |-> t,
                       out |-> IF ODHas(contexts, key)
                               THEN [kind |-> "return",
                                     value |-> Len(frames[t].expired_keys)]
                               ELSE [kind |-> "raise", message |-> "KeyError"]]
    /\ frames' = [frames EXCEPT ![t] = [pc |-> "idle"]]
    /\ UNCHANGED <<now, heap, router_vars, tool_vars, reason_vars,
                   registry_vars, agent_vars, task_vars, db_vars>>

ConcNext ==
    \/ Tick
    \/ \E t \in ConcThreads :
        \/ ThreadClearCollect(t)
        \/ ThreadClearDel(t)
        \/ ThreadCreate(t)
        \/ ThreadGetRead(t)
        \/ ThreadGetReturn(t)
        \/ ThreadUpdateRead(t)
        \/ ThreadUpdateData(t)
        \/ ThreadUpdateReturn(t)
        \/ ThreadDeleteTest(t)
        \/ ThreadDeleteDel(t)

----------------------------------------------------------------------------
(* Python strings and numbers used by the decomposition engine *)

\* the characters str.split() and str.strip() treat as whitespace
Whitespace == {" ", "\t", "\n"}

\* the i-th character of a string
CharAt(s, i) == SubSeq(s, i, i)

\* one character of str.lower()
LowerChar(c) ==
    CASE c = "A" -> "a" [] c = "B" -> "b" [] c = "C" -> "c" [] c = "D" -> "d"
      [] c = "E" -> "e" [] c = "F" -> "f" [] c = "G" -> "g" [] c = "H" -> "h"
      [] c = "I" -> "i" [] c = "J" -> "j" [] c = "K" -> "k" [] c = "L" -> "l"
      [] c = "M" -> "m" [] c = "N" -> "n" [] c = "O" -> "o" [] c = "P" -> "p"
      [] c = "Q" -> "q" [] c = "R" -> "r" [] c = "S" -> "s" [] c = "T" -> "t"
      [] c = "U" -> "u" [] c = "V" -> "v" [] c = "W" -> "w" [] c = "X" -> "x"
      [] c = "Y" -> "y" [] c = "Z" -> "z" [] OTHER -> c

RECURSIVE Lower(_)
\* str.lower()
Lower(s) == IF s = "" THEN "" ELSE LowerChar(CharAt(s, 1)) \o Lower(Tail(s))

\* sub in s
Contains(s, sub) ==
    \E i \in 1..(Len(s) - Len(sub) + 1) : SubSeq(s, i, i + Len(sub) - 1) = sub

\* s.find(sub) + 1, for a sub that s contains
FindFirst(s, sub) ==
    CHOOSE i \in 1..(Len(s) - Len(sub) + 1) :
        /\ SubSeq(s, i, i + Len(sub) - 1) = sub
        /\ \A j \in 1..(i - 1) : SubSeq(s, j, j + Len(sub) - 1) # sub

RECURSIVE SplitOn(_, _)
\* s.split(sep): the pieces between the occurrences of sep, left to right
SplitOn(s, sep) ==
    IF ~Contains(s, sep) THEN <<s>>
    ELSE LET i == FindFirst(s, sep)
         IN  <<SubSeq(s, 1, i - 1)>> \o SplitOn(SubSeq(s, i + Len(sep), Len(s)), sep)

\* len(s.split()): the number of maximal runs of characters that are not whitespace
WordCount(s) ==
    Cardinality({i \in 1..Len(s) :
                    /\ CharAt(s, i) \notin Whitespace
                    /\ (i = 1 \/ CharAt(s, i - 1) \in Whitespace)})

RECURSIVE LStrip(_)
LStrip(s) == IF s # "" /\ CharAt(s, 1) \in Whitespace THEN LStrip(Tail(s)) ELSE s

RECURSIVE RStrip(_)
RStrip(s) ==
    IF s # "" /\ CharAt(s, Len(s)) \in Whitespace
    THEN RStrip(SubSeq(s, 1, Len(s) - 1)) ELSE s

\* str.strip()
Strip(s) == RStrip(LStrip(s))

RECURSIVE Join(_, _)
\* sep.join(parts)
Join(sep, parts) ==
    IF parts = <<>> THEN ""
    ELSE IF Len(parts) = 1 THEN parts[1]
    ELSE parts[1] \o sep \o Join(sep, Tail(parts))

RECURSIVE GCD(_, _)
GCD(a, b) == IF b = 0 THEN a ELSE GCD(b, a % b)

\* A confidence is a float; it is kept here as the exact fraction num / den in
\* lowest terms, den > 0.
Frac(n, d) == [num |-> n \div GCD(n, d), den |-> d \div GCD(n, d)]

FracAdd(a, b) == Frac(a.num * b.den + b.num * a.den, a.den * b.den)

FracMul(a, b) == Frac(a.num * b.num, a.den * b.den)

\* a / n for an integer n > 0
FracDivInt(a, n) == Frac(a.num, a.den * n)

\* a <= b
FracLeq(a, b) == a.num * b.den <= b.num * a.den

RECURSIVE FracSum(_)
\* sum(list)
FracSum(list) ==
    IF list = <<>> THEN Frac(0, 1) ELSE FracAdd(list[1], FracSum(Tail(list)))

----------------------------------------------------------------------------
(* Decomposition engine: agent_tools/recursive_reasoner.py *)

\* Python values inside the context dict carry their type; each type keeps its
\* content in a field of its own
PyNone == [t |-> "None"]

PyStr(v) == [t |-> "str", chars |-> v]

PyList(v) == [t |-> "list", items |-> v]

PyDict(v) == [t |-> "dict", v |-> v]

\* a call returns a value, or raises
Return(v) == [kind |-> "return", value |-> v]

Raise(m) == [kind |-> "raise", message |-> m]

\* no return yet: the statements that follow are executed
FallThrough == [kind |-> "none"]

\* v.get(k, default) on a dict v
PyGet(v, k, default) == IF k \in DOMAIN v.v THEN v.v[k] ELSE default

\* list[:n]
Take(list, n) == SubSeq(list, 1, IF Len(list) < n THEN Len(list) ELSE n)

\* RecursiveReasoner.__init__(max_depth=3)
DefaultMaxDepth == 3

\* problems given to reason()
Problems ==
    {"a and b",
     "Show top 10 customers by total revenue and count their orders from the database",
     "a b c d e f g h i and j k",
     "A B C D E F G H I AND J K",
     "a b c d e f g h i and j k l m n o p q r s analyze and t",
     "one two three four five six seven eight nine ten and eleven",
     "use the database to join orders with customers by customer id please",
     "columns of the table"}

\* a schema whose columns are dicts with a name, as _solve_directly reads them
SchemaOfDicts ==
    PyDict([tables |-> PyList(<<
        PyDict([name |-> PyStr("customers"),
                columns |-> PyList(<<PyDict([name |-> PyStr("id")]),
                                     PyDict([name |-> PyStr("name")])>>)]),
        PyDict([name |-> PyStr("orders"),
                columns |-> PyList(<<PyDict([name |-> PyStr("id")])>>)])>>)])

\* the schema demo_ai_agent.py passes: the columns are plain strings
SchemaOfDemo ==
    PyDict([tables |-> PyList(<<
        PyDict([name |-> PyStr("customers"),
                columns |-> PyList(<<PyStr("id"), PyStr("name")>>)]),
        PyDict([name |-> PyStr("orders"),
                columns |-> PyList(<<PyStr("id"), PyStr("customer_id"),
                                     PyStr("amount")>>)])>>)])

\* context given to reason(): None, or a dict; the schema a caller has fetched is
\* a dict, or None when it has none
ReasonContexts ==
    {None, Some(PyDict([schema |-> SchemaOfDicts])), Some(PyDict([schema |-> SchemaOfDemo])),
     Some(PyDict([schema |-> PyNone]))}

\* max_depth given to reason()
ReasonMaxDepths == {None, Some(0), Some(1), Some(3)}

\* ReasoningStep.X.value
StepValue(step_type) ==
    CASE step_type = "ANALYZE" -> "analyze" [] step_type = "DECOMPOSE" -> "decompose"
      [] step_type = "SOLVE" -> "solve" [] step_type = "VERIFY" -> "verify"
      [] step_type = "SYNTHESIZE" -> "synthesize"

\* ReasoningNode(step_type, question, depth): the defaults of the dataclass
ReasoningNode(step_type, question, depth) ==
    [step_type |-> step_type, question |-> question, answer |-> None,
     confidence |-> Frac(0, 1), sub_questions |-> <<>>, depth |-> depth]

\* _is_simple_enough
IsSimpleEnough(question) ==
    \/ WordCount(question) < 10
    \/ \E keyword \in {"what is", "show", "list", "get", "find", "count"} :
          Contains(Lower(question), keyword)

\* _decompose_problem
DecomposeProblem(problem, context) ==
    LET problem_lower == Lower(problem)
        parts == SplitOn(problem, " and ")
        pattern2 ==
            IF Contains(problem_lower, "database") \/ Contains(problem_lower, "query")
            THEN IF Contains(problem_lower, "join")
                    \/ Contains(problem_lower, "multiple tables")
                 THEN <<"Identify the tables involved", "Determine the join conditions",
                        "Construct the SELECT statement">>
                 ELSE IF Contains(problem_lower, "aggregate")
                         \/ Contains(problem_lower, "group by")
                 THEN <<"Identify the aggregation columns",
                        "Determine the grouping criteria",
                        "Apply the aggregation function">>
                 ELSE <<>>
            ELSE <<>>
        pattern3 ==
            IF Contains(problem_lower, "analyze") \/ Contains(problem_lower, "compare")
            THEN <<"Extract the data", "Calculate relevant metrics",
                   "Compare and interpret results">>
            ELSE <<>>
        pattern4 ==
            IF Contains(problem_lower, "where")
                  /\ (Contains(problem_lower, "and") \/ Contains(problem_lower, "or"))
            THEN <<"Identify primary filter criteria",
                   "Identify secondary filter criteria", "Combine filters logically">>
            ELSE <<>>
    IN  IF Contains(problem_lower, " and ") /\ Len(parts) > 1
        THEN [i \in 1..Len(parts) |-> Strip(parts[i])]
        ELSE pattern2 \o pattern3 \o pattern4

\* truth value of a Python value
PyTruthy(v) ==
    CASE v.t = "None" -> FALSE
      [] v.t = "str" -> v.chars # ""
      [] v.t = "list" -> v.items # <<>>
      [] v.t = "dict" -> DOMAIN v.v # {}

\* _solve_directly, the statements under `if 'identify' in ... and 'tables' in ...`:
\* .get on a value that is not a dict raises AttributeError
TablesAnswer(schema) ==
    IF schema.t # "dict" THEN Raise("AttributeError")
    ELSE LET tables == PyGet(schema, "tables", PyList(<<>>))
         IN  IF ~PyTruthy(tables) THEN FallThrough
             ELSE IF \E i \in 1..Len(tables.items) : tables.items[i].t # "dict"
             THEN Raise("AttributeError")
             ELSE LET table_names ==
                          [i \in 1..Len(tables.items) |->
                              PyGet(tables.items[i], "name", PyStr("unknown")).chars]
                  IN  Return("Tables involved: " \o Join(", ", Take(table_names, 5)))

\* _solve_directly, the statements under `if 'columns' in question_lower`
ColumnsAnswer(schema) ==
    IF schema.t # "dict" THEN Raise("AttributeError")
    ELSE LET tables == PyGet(schema, "tables", PyList(<<>>))
         IN  IF ~PyTruthy(tables) THEN FallThrough
             ELSE IF tables.items[1].t # "dict" THEN Raise("AttributeError")
             ELSE LET columns == Take(PyGet(tables.items[1], "columns", PyList(<<>>)).items, 5)
                  IN  IF \E i \in 1..Len(columns) : columns[i].t # "dict"
                      THEN Raise("AttributeError")
                      ELSE Return("Columns: " \o
                               Join(", ", [i \in 1..Len(columns) |->
                                              PyGet(columns[i], "name",
                                                    PyStr("unknown")).chars]))

\* _solve_directly
SolveDirectly(question, context) ==
    LET question_lower == Lower(question)
        about_schema == Contains(question_lower, "database")
                            \/ Contains(question_lower, "table")
        schema == PyGet(context, "schema", PyDict(EmptyDict))
        tables_answer ==
            IF about_schema /\ Contains(question_lower, "identify")
                  /\ Contains(question_lower, "tables")
            THEN TablesAnswer(schema) ELSE FallThrough
        columns_answer ==
            IF about_schema /\ Contains(question_lower, "columns")
            THEN ColumnsAnswer(schema) ELSE FallThrough
    IN  IF tables_answer.kind # "none" THEN tables_answer
        ELSE IF columns_answer.kind # "none" THEN columns_answer
        ELSE IF Contains(question_lower, "select") \/ Contains(question_lower, "query")
        THEN Return("Construct a SELECT query with appropriate columns and conditions")
        ELSE IF Contains(question_lower, "join")
        THEN Return("Use JOIN clause to combine data from multiple tables")
        ELSE IF Contains(question_lower, "group") \/ Contains(question_lower, "aggregate")
        THEN Return("Apply GROUP BY with appropriate aggregation function (SUM, COUNT, AVG, etc.)")
        ELSE Return("Solution for: " \o question)

\* _synthesize_answers
SynthesizeAnswers(node) ==
    IF node.sub_questions = <<>>
    THEN (IF TruthyStr(node.answer) THEN node.answer[1] ELSE "No answer available")
    ELSE LET numbered == [i \in 1..Len(node.sub_questions) |->
                             [n |-> i, sq |-> node.sub_questions[i]]]
             answered == SelectSeq(numbered, LAMBDA it : TruthyStr(it.sq.answer))
             sub_answers == [i \in 1..Len(answered) |->
                                ToString(answered[i].n) \o ". " \o answered[i].sq.answer[1]]
         IN  "To solve '" \o node.question \o "':\n" \o Join("\n", sub_answers)

\* _calculate_confidence with the damping factor left out
CalculateConfidence_NoDamping(node) ==
    IF node.sub_questions = <<>> THEN node.confidence
    ELSE LET all == [i \in 1..Len(node.sub_questions) |-> node.sub_questions[i].confidence]
             sub_confidences == SelectSeq(all, LAMBDA c : c.num > 0)
         IN  IF sub_confidences # <<>>
             THEN FracDivInt(FracSum(sub_confidences), Len(sub_confidences))
             ELSE Frac(1, 2)

\* _calculate_confidence
CalculateConfidence(node) ==
    IF node.sub_questions = <<>> THEN node.confidence
    ELSE LET all == [i \in 1..Len(node.sub_questions) |-> node.sub_questions[i].confidence]
             sub_confidences == SelectSeq(all, LAMBDA c : c.num > 0)
         IN  IF sub_confidences # <<>>
             THEN FracMul(FracDivInt(FracSum(sub_confidences), Len(sub_confidences)),
                          Frac(95, 100))
             ELSE Frac(1, 2)

\* _recursive_solve with no test of the depth in its base case
IsBaseCase_SimpleOnly(node, max_depth) ==
    IsSimpleEnough(node.question)

RECURSIVE RecursiveSolve(_, _, _)
RECURSIVE SolveSubProblems(_, _, _, _)

\* _recursive_solve, the loop over sub_problems: the sub-nodes are solved and
\* appended in order, and the first failure ends the loop
SolveSubProblems(node, sub_problems, context, max_depth) ==
    IF sub_problems = <<>> THEN Return(node)
    ELSE LET sub_node == ReasoningNode("SOLVE", sub_problems[1], node.depth + 1)
             solved == RecursiveSolve(sub_node, context, max_depth)
         IN  IF solved.kind = "raise" THEN solved
             ELSE SolveSubProblems(
                      [node EXCEPT !.sub_questions = Append(@, solved.value)],
                      Tail(sub_problems), context, max_depth)

\* _recursive_solve, line 102: the base case
IsBaseCase(node, max_depth) ==
    node.depth >= max_depth \/ IsSimpleEnough(node.question)

\* _recursive_solve: the node as it leaves it, or what it raises
RecursiveSolve(node, context, max_depth) ==
    IF IsBaseCase(node, max_depth)
    THEN LET answer == SolveDirectly(node.question, context)
         IN  IF answer.kind = "raise" THEN answer
             ELSE Return([node EXCEPT !.answer = Some(answer.value),
                                      !.confidence = Frac(8, 10)])
    ELSE LET sub_problems == DecomposeProblem(node.question, context)
         IN  IF sub_problems = <<>>
             THEN LET answer == SolveDirectly(node.question, context)
                  IN  IF answer.kind = "raise" THEN answer
                      ELSE Return([node EXCEPT !.answer = Some(answer.value),
                                               !.confidence = Frac(6, 10)])
             ELSE LET with_subs == SolveSubProblems(node, sub_problems, context, max_depth)
                  IN  IF with_subs.kind = "raise" THEN with_subs
                      ELSE LET answered == [with_subs.value EXCEPT
                                               !.answer = Some(SynthesizeAnswers(with_subs.value))]
                           IN  Return([answered EXCEPT
                                          !.confidence = CalculateConfidence(answered)])

\* _extract_solution
ExtractSolution(node) ==
    IF TruthyStr(node.answer) THEN node.answer[1] ELSE "Unable to determine solution"

\* _serialize_tree without the sub-questions
SerializeTree_RootOnly(node) ==
    [step_type |-> StepValue(node.step_type), question |-> node.question,
     answer |-> node.answer, confidence |-> node.confidence, depth |-> node.depth,
     sub_questions |-> <<>>]

RECURSIVE SerializeTree(_)
\* _serialize_tree: the node as a plain dict, the step type by its value
SerializeTree(node) ==
    [step_type |-> StepValue(node.step_type), question |-> node.question,
     answer |-> node.answer, confidence |-> node.confidence, depth |-> node.depth,
     sub_questions |-> [i \in 1..Len(node.sub_questions) |->
                           SerializeTree(node.sub_questions[i])]]

RECURSIVE CountSteps(_)
\* _count_steps
CountSteps(node) ==
    1 + FracSum([i \in 1..Len(node.sub_questions) |->
                    Frac(CountSteps(node.sub_questions[i]), 1)]).num

\* max(iterable) of integers
Max(S) == CHOOSE m \in S : \A n \in S : n <= m

RECURSIVE GetMaxDepth(_)
\* _get_max_depth
GetMaxDepth(node) ==
    IF node.sub_questions = <<>> THEN node.depth
    ELSE Max({GetMaxDepth(node.sub_questions[i]) : i \in 1..Len(node.sub_questions)})

\* reason(): the root node it solves and what it returns (the dict) or raises
ReasonCall(problem, context, max_depth) ==
    LET depth_bound == IF max_depth = None THEN DefaultMaxDepth ELSE max_depth[1]
        root_node == ReasoningNode("ANALYZE", problem, 0)
        solved == RecursiveSolve(root_node,
                                 IF context # None /\ PyTruthy(context[1])
                                 THEN context[1] ELSE PyDict(EmptyDict),
                                 depth_bound)
    IN  IF solved.kind = "raise" THEN solved
        ELSE [kind |-> "return", root_node |-> solved.value,
              value |-> [problem |-> problem,
                         solution |-> ExtractSolution(solved.value),
                         confidence |-> solved.value.confidence,
                         reasoning_tree |-> SerializeTree(solved.value),
                         steps_taken |-> CountSteps(solved.value),
                         max_depth_reached |-> GetMaxDepth(solved.value)]]

\* reason() on each of the inputs (it reads no state of the reasoner), as an
\* explicit table: merging with the empty function has it evaluated once
ReasonTable ==
    [args \in Problems \X ReasonContexts \X ReasonMaxDepths |->
        ReasonCall(args[1], args[2], args[3])] @@ EmptyDict

\* reason(): a call that raises leaves reasoning_history alone
Reason ==
    \E problem \in Problems, context \in ReasonContexts, max_depth \in ReasonMaxDepths :
        LET call == ReasonTable[<<problem, context, max_depth>>]
        IN  /\ Len(reasoning_history) < MaxHistory
            /\ reasoning_history' =
                  IF call.kind = "raise" THEN reasoning_history
                  ELSE Append(reasoning_history, call.root_node)
            /\ qlast' = [op |-> "reason", problem |-> problem, context |-> context,
                         max_depth |-> max_depth,
                         out |-> IF call.kind = "raise" THEN call
                                 ELSE Return(call.value)]
            /\ UNCHANGED <<registry_vars, agent_vars, task_vars, db_vars,
                           now, ctx_vars, router_vars, tool_vars, conc_vars>>

ReasonNext == Reason

----------------------------------------------------------------------------
(* Agent registry of the MCP server: mcp_server/agent_registry.py *)

\* AgentDefinition: the fields execute_task reads
AgentDefinition(id, name, type, tools_available) ==
    [id |-> id, name |-> name, type |-> type, tools_available |-> tools_available]

\* _initialize_default_agents: the five agents registered at construction
DefaultAgents ==
    <<AgentDefinition("db-agent-001", "Database Connection Agent", "database",
          <<"connect_database", "list_database_connections", "query_database",
            "get_database_schema">>),
      AgentDefinition("gen-agent-001", "SQL Generator Agent", "generator",
          <<"generate_sql", "get_database_schema">>),
      AgentDefinition("critic-agent-001", "SQL Critic Agent", "critic",
          <<"get_database_schema">>),
      AgentDefinition("analyst-agent-001", "Data Analyst Agent", "analyst",
          <<"analyze_data", "query_database">>),
      AgentDefinition("orch-agent-001", "Orchestrator Agent", "orchestrator",
          <<"connect_database", "query_database", "generate_sql", "analyze_data">>)>>

\* agents given to register_agent by a caller: a new id, and a default id again
CallerAgents ==
    {AgentDefinition("custom-001", "Custom Agent", "analyst", <<"analyze_data">>),
     AgentDefinition("db-agent-001", "Replacement", "database", <<"query_database">>)}

\* agent ids a caller names: those above and one never registered
AgentIds ==
    {DefaultAgents[i].id : i \in 1..Len(DefaultAgents)}
        \cup {a.id : a \in CallerAgents} \cup {"missing"}

\* tools_allowed given to execute_task
ToolsAllowed == {None, Some(<<>>), Some(<<"query_database">>), Some(<<"drop_table">>)}

\* register_agent
RegisterAgent ==
    \E agent \in CallerAgents :
        /\ registry_agents' = ODSet(registry_agents, agent.id, agent)
        /\ alast' = [op |-> "register_agent", agent_id |-> agent.id]
        /\ UNCHANGED <<now, ctx_vars, router_vars, tool_vars, conc_vars, reason_vars,
                       agent_vars, task_vars, db_vars>>

\* remove_agent
RemoveAgent ==
    \E agent_id \in AgentIds :
        /\ registry_agents' = ODDel(registry_agents, agent_id)
        /\ alast' = [op |-> "remove_agent", agent_id |-> agent_id,
                     out |-> Return(ODHas(registry_agents, agent_id))]
        /\ UNCHANGED <<now, ctx_vars, router_vars, tool_vars, conc_vars, reason_vars,
                       agent_vars, task_vars, db_vars>>

\* execute_task: what the call does, a returned dict or a raised ValueError
ExecuteTaskOutcome(agent_id, tools_allowed) ==
    LET agent == ODGet(registry_agents, agent_id)
    IN  IF agent = None
        THEN Raise("Agent " \o agent_id \o " not found")
        ELSE IF /\ tools_allowed # None
                /\ Len(tools_allowed[1]) > 0
                /\ Range(tools_allowed[1]) \ Range(agent[1].tools_available) # {}
        THEN Raise("Agent does not have access to tools")
        ELSE Return([agent_id |-> agent_id, agent_name |-> agent[1].name,
                     status |-> "completed",
                     result |-> "Task completed by " \o agent[1].name,
                     tools_used |-> IF tools_allowed = None THEN <<>>
                                    ELSE tools_allowed[1]])

\* execute_task
ExecuteTask ==
    \E agent_id \in AgentIds, tools_allowed \in ToolsAllowed :
        /\ alast' = [op |-> "execute_task", agent_id |-> agent_id,
                     tools_allowed |-> tools_allowed,
                     had |-> ODHas(registry_agents, agent_id),
                     out |-> ExecuteTaskOutcome(agent_id, tools_allowed)]
        /\ UNCHANGED <<now, ctx_vars, router_vars, tool_vars, conc_vars, reason_vars,
                       agent_vars, task_vars, db_vars, registry_agents>>

RegistryNext ==
    \/ RegisterAgent
    \/ RemoveAgent
    \/ ExecuteTask

----------------------------------------------------------------------------
(* Query history of a database context: mcp_server/context_manager.py *)

\* connection ids given to create_database_context
ConnectionIds == {"c1"}

\* connection ids given to add_query_to_history: c2 is never created
HistoryConnectionIds == {"c1", "c2"}

\* the queries of the n-th addition to a context: the first VariedAdds additions
\* take any of four texts, two of them without a word; the later ones are
\* numbered, so that every position of the buffer can be told from the others
QueriesAt(n) ==
    IF n <= VariedAdds
    THEN {"select 1", "  insert into t", "", "  "}
    ELSE {"select " \o ToString(n)}

\* one character of str.upper()
UpperChar(c) ==
    CASE c = "a" -> "A" [] c = "b" -> "B" [] c = "c" -> "C" [] c = "d" -> "D"
      [] c = "e" -> "E" [] c = "f" -> "F" [] c = "g" -> "G" [] c = "h" -> "H"
      [] c = "i" -> "I" [] c = "j" -> "J" [] c = "k" -> "K" [] c = "l" -> "L"
      [] c = "m" -> "M" [] c = "n" -> "N" [] c = "o" -> "O" [] c = "p" -> "P"
      [] c = "q" -> "Q" [] c = "r" -> "R" [] c = "s" -> "S" [] c = "t" -> "T"
      [] c = "u" -> "U" [] c = "v" -> "V" [] c = "w" -> "W" [] c = "x" -> "X"
      [] c = "y" -> "Y" [] c = "z" -> "Z" [] OTHER -> c

RECURSIVE Upper(_)
\* str.upper()
Upper(s) == IF s = "" THEN "" ELSE UpperChar(CharAt(s, 1)) \o Upper(Tail(s))

RECURSIVE UpToWhitespace(_)
\* the characters of s before its first whitespace character
UpToWhitespace(s) ==
    IF s = "" \/ CharAt(s, 1) \in Whitespace THEN ""
    ELSE CharAt(s, 1) \o UpToWhitespace(Tail(s))

\* query.strip().split()[0].upper(): an IndexError when the query has no word
QueryType(query) ==
    IF WordCount(Strip(query)) = 0 THEN Raise("list index out of range")
    ELSE Return(Upper(UpToWhitespace(Strip(query))))

\* DatabaseContext(...): recent_queries and query_patterns start empty
DatabaseContext(connection_id) ==
    [connection_id |-> connection_id, recent_queries |-> <<>>,
     query_patterns |-> EmptyDict]

\* create_database_context: a fresh context replaces the one of that id
CreateDatabaseContext ==
    \E connection_id \in ConnectionIds :
        /\ database_contexts' =
               [c \in DOMAIN database_contexts \cup {connection_id} |->
                   IF c = connection_id THEN DatabaseContext(connection_id)
                   ELSE database_contexts[c]]
        /\ added' = [c \in DOMAIN added \cup {connection_id} |->
                        IF c = connection_id THEN <<>> ELSE added[c]]
        /\ dlast' = [op |-> "create_database_context", connection_id |-> connection_id]
        /\ UNCHANGED <<now, ctx_vars, router_vars, tool_vars, conc_vars, reason_vars,
                       registry_vars, agent_vars, task_vars>>

\* add_query_to_history with the newest query dropped from a full buffer
RecentAfterAppend_DropNewest(recent_queries, query) ==
    LET appended == Append(recent_queries, query)
    IN  IF Len(appended) > 50 THEN SubSeq(appended, 1, Len(appended) - 1) ELSE appended

\* add_query_to_history, lines 163-166: append, then pop(0) above 50 queries
RecentAfterAppend(recent_queries, query) ==
    LET appended == Append(recent_queries, query)
    IN  IF Len(appended) > 50 THEN Tail(appended) ELSE appended

\* add_query_to_history, lines 169-171: the count of the query's first word
PatternsAfter(query_patterns, query_type) ==
    [t \in DOMAIN query_patterns \cup {query_type} |->
        (IF t \in DOMAIN query_patterns THEN query_patterns[t] ELSE 0)
            + (IF t = query_type THEN 1 ELSE 0)]

\* add_query_to_history: the buffer is changed before the first word is taken,
\* so a query without a word leaves the buffer changed and raises
AddQueryToHistory ==
    \E connection_id \in HistoryConnectionIds :
        IF connection_id \notin DOMAIN database_contexts
        THEN /\ dlast' = [op |-> "add_query", connection_id |-> connection_id,
                          known |-> FALSE, before |-> database_contexts,
                          out |-> Return(None)]
             /\ UNCHANGED <<now, ctx_vars, router_vars, tool_vars, conc_vars,
                            reason_vars, registry_vars, agent_vars, task_vars,
                            database_contexts, added>>
        ELSE /\ Len(added[connection_id]) < MaxAdds
             /\ \E query \in QueriesAt(Len(added[connection_id]) + 1) :
                  LET db_context == database_contexts[connection_id]
                      recent == RecentAfterAppend(db_context.recent_queries, query)
                      query_type == QueryType(query)
                  IN  /\ database_contexts' =
                             [database_contexts EXCEPT ![connection_id] =
                                 [@ EXCEPT
                                     !.recent_queries = recent,
                                     !.query_patterns =
                                         IF query_type.kind = "raise" THEN @
                                         ELSE PatternsAfter(@, query_type.value)]]
                      /\ added' = [added EXCEPT ![connection_id] = Append(@, query)]
                      /\ dlast' = [op |-> "add_query", connection_id |-> connection_id,
                                   known |-> TRUE, query |-> query,
                                   before |-> database_contexts,
                                   out |-> IF query_type.kind = "raise" THEN query_type
                                           ELSE Return(None)]
             /\ UNCHANGED <<now, ctx_vars, router_vars, tool_vars, conc_vars,
                            reason_vars, registry_vars, agent_vars, task_vars>>

DbNext ==
    \/ CreateDatabaseContext
    \/ AddQueryToHistory

----------------------------------------------------------------------------
(* Registry of agents: agents/base_agent.py, AgentRegistry *)

\* the BaseAgent objects given to register: two share an agent_id and differ in
\* their agent_type
AgentObjects ==
    {[agent_id |-> "g1", agent_type |-> "database"],
     [agent_id |-> "g1", agent_type |-> "analyst"],
     [agent_id |-> "g2", agent_type |-> "database"]}

\* agent ids and types a caller names
RegisteredIds == {a.agent_id : a \in AgentObjects} \cup {"g3"}

AgentTypeNames == {a.agent_type : a \in AgentObjects} \cup {"critic"}

\* register: the agent is stored under its id, and the id is appended to the
\* list of its type, which is created when missing
Register_Agent ==
    \E agent \in AgentObjects :
        LET ids == ODGet(agent_types, agent.agent_type)
        IN  /\ (ids # None => Len(ids[1]) < MaxTypeList)
            /\ agents' = [id \in DOMAIN agents \cup {agent.agent_id} |->
                             IF id = agent.agent_id THEN agent ELSE agents[id]]
            /\ agent_types' = ODSet(agent_types, agent.agent_type,
                                  Append(IF ids = None THEN <<>> ELSE ids[1],
                                         agent.agent_id))
            /\ glast' = [op |-> "register", agent |-> agent]
            /\ UNCHANGED <<now, ctx_vars, router_vars, tool_vars, conc_vars,
                           reason_vars, registry_vars, task_vars, db_vars>>

\* list.remove(x): the first occurrence of x is removed
ListRemove(list, x) ==
    LET i == CHOOSE i \in 1..Len(list) :
                 list[i] = x /\ \A j \in 1..(i - 1) : list[j] # x
    IN  SubSeq(list, 1, i - 1) \o SubSeq(list, i + 1, Len(list))

\* unregister: the agent is deleted, and its id is removed once from the list of
\* the type the stored agent has; list.remove raises ValueError when it is not there
Unregister_Agent ==
    \E agent_id \in RegisteredIds :
        IF agent_id \notin DOMAIN agents
        THEN /\ glast' = [op |-> "unregister", agent_id |-> agent_id,
                          out |-> Return(FALSE)]
             /\ UNCHANGED <<now, ctx_vars, router_vars, tool_vars, conc_vars,
                            reason_vars, registry_vars, task_vars, db_vars,
                            agents, agent_types>>
        ELSE LET agent == agents[agent_id]
                 ids == ODGet(agent_types, agent.agent_type)
             IN  /\ agents' = [id \in DOMAIN agents \ {agent_id} |-> agents[id]]
                 /\ agent_types' =
                        IF ids # None /\ agent_id \in Range(ids[1])
                        THEN ODSet(agent_types, agent.agent_type,
                                   ListRemove(ids[1], agent_id))
                        ELSE agent_types
                 /\ glast' = [op |-> "unregister", agent_id |-> agent_id,
                              out |-> IF ids # None /\ agent_id \notin Range(ids[1])
                                      THEN Raise("ValueError") ELSE Return(TRUE)]
                 /\ UNCHANGED <<now, ctx_vars, router_vars, tool_vars, conc_vars,
                                reason_vars, registry_vars, task_vars, db_vars>>

\* get_by_type: the agents stored under the ids listed for the type, in the
\* order of the list, the ids no longer registered left out
GetByTypeResult(agent_type) ==
    LET ids == ODGet(agent_types, agent_type)
        agent_ids == IF ids = None THEN <<>> ELSE ids[1]
        kept == SelectSeq(agent_ids, LAMBDA aid : aid \in DOMAIN agents)
    IN  [i \in 1..Len(kept) |-> agents[kept[i]]]

GetByType ==
    \E agent_type \in AgentTypeNames :
        /\ glast' = [op |-> "get_by_type", agent_type |-> agent_type,
                     ret |-> GetByTypeResult(agent_type)]
        /\ UNCHANGED <<now, ctx_vars, router_vars, tool_vars, conc_vars,
                       reason_vars, registry_vars, task_vars, db_vars,
                       agents, agent_types>>

AgentNext ==
    \/ Register_Agent
    \/ Unregister_Agent
    \/ GetByType

----------------------------------------------------------------------------
(* Tasks of one agent: agents/base_agent.py, BaseAgent.run_task *)

\* task ids, in the order uuid4() hands them out
TaskIds == [n \in 1..MaxTasks |-> "k" \o ToString(n)]

\* what the subclass's execute_task does once it is resumed: it returns the
\* task, or raises
TaskOutcomes == {"return", "raise"}

\* AgentTask(...): status IDLE, no error, not completed
AgentTask(task_id) ==
    [task_id |-> task_id, status |-> "idle", error |-> None, completed_at |-> None]

\* run_task, lines 95-109: the task is created and stored, the agent's status is
\* set to RUNNING, and the call is suspended at `await self.execute_task(task)`
RunTaskStart ==
    /\ Len(tasks) < MaxTasks
    /\ LET task_id == TaskIds[Len(tasks) + 1]
       IN  /\ tasks' = ODSet(tasks, task_id, AgentTask(task_id))
           /\ status' = "running"
           /\ running' = running \cup {task_id}
           /\ klast' = [op |-> "start", task_id |-> task_id]
    /\ UNCHANGED <<now, ctx_vars, router_vars, tool_vars, conc_vars, reason_vars,
                   registry_vars, agent_vars, db_vars>>

\* run_task, lines 113 and 120: the agent's status once execute_task is over
StatusAfterTask(task_id, outcome) ==
    IF outcome = "return" THEN "idle" ELSE "failed"

\* run_task, lines 110-121: execute_task is over; the task and the agent's
\* status are set from its outcome, and the task is returned
RunTaskFinish ==
    \E task_id \in running, outcome \in TaskOutcomes :
        LET task == [ODGet(tasks, task_id)[1] EXCEPT
                        !.status = IF outcome = "return" THEN "completed" ELSE "failed",
                        !.error = IF outcome = "return" THEN None
                                  ELSE Some("execute_task failed"),
                        !.completed_at = Some(IsoFormat(now))]
        IN  /\ tasks' = ODSet(tasks, task_id, task)
            /\ status' = StatusAfterTask(task_id, outcome)
            /\ running' = running \ {task_id}
            /\ klast' = [op |-> "run_task", task_id |-> task_id, ret |-> task]
            /\ UNCHANGED <<now, ctx_vars, router_vars, tool_vars, conc_vars,
                           reason_vars, registry_vars, agent_vars, db_vars>>

TaskNext ==
    \/ RunTaskStart
    \/ RunTaskFinish

----------------------------------------------------------------------------
(* Initial values *)

RouterInit ==
    /\ message_handlers = DefaultHandlers
    /\ message_queue = <<>>
    /\ processed_messages = <<>>
    /\ created = <<>>
    /\ rpc = "idle"
    /\ rlast = [op |-> "init"]

ToolInit ==
    /\ tools = <<>>
    /\ usage_count = [t \in ToolObjects |-> 0]
    /\ last_used = [t \in ToolObjects |-> None]
    /\ calls = {}
    /\ started = [t \in ToolObjects |-> [n |-> 0, at |-> None]]
    /\ tlast = [op |-> "init"]

ConcInit ==
    /\ heap = <<>>
    /\ frames = [t \in ConcThreads |-> [pc |-> "idle"]]

ReasonInit ==
    /\ reasoning_history = <<>>
    /\ qlast = [op |-> "init"]

\* AgentRegistry.__init__ of the MCP server: the default agents are registered
RegistryInit ==
    /\ registry_agents = [i \in 1..Len(DefaultAgents) |->
                              [key |-> DefaultAgents[i].id, val |-> DefaultAgents[i]]]
    /\ alast = [op |-> "init"]

AgentInit ==
    /\ agents = EmptyDict
    /\ agent_types = <<>>
    /\ glast = [op |-> "init"]

TaskInit ==
    /\ status = "idle"
    /\ tasks = <<>>
    /\ running = {}
    /\ klast = [op |-> "init"]

DbInit ==
    /\ database_contexts = EmptyDict
    /\ added = EmptyDict
    /\ dlast = [op |-> "init"]

Init ==
    /\ CtxInit /\ RouterInit /\ ToolInit /\ ConcInit /\ ReasonInit
    /\ RegistryInit /\ AgentInit /\ TaskInit /\ DbInit

\* the context store, called by one caller at a time
Spec == Init /\ [][CtxNext]_vars

\* the protocol router: route_message is synchronous, one call at a time
RouterSpec == Init /\ [][RouterNext]_vars

\* the tool registry: calls overlap at the await of the tool's execute()
ToolSpec == Init /\ [][ToolNext]_vars

\* the context store called from several threads, with no lock
ConcSpec == Init /\ [][ConcNext]_vars

\* the decomposition engine, one reason() call at a time
ReasonSpec == Init /\ [][ReasonNext]_vars

\* the agent registry of the MCP server, one call at a time
RegistrySpec == Init /\ [][RegistryNext]_vars

\* the query history of the database contexts, one call at a time
DbSpec == Init /\ [][DbNext]_vars

\* the registry of agents, one call at a time
AgentSpec == Init /\ [][AgentNext]_vars

\* one agent's run_task calls, which overlap at the await of execute_task
TaskSpec == Init /\ [][TaskNext]_vars

----------------------------------------------------------------------------
(* Claims about the context store, checked under Spec *)

\* the specification's notion of absence: a TTL is set and now - createdAt > ttlSeconds
TtlElapsed(context) ==
    /\ context.ttl_seconds # None
    /\ now - context.created_at > context.ttl_seconds[1]

\* C1: for every entry created with a TTL, once more than ttlSeconds have elapsed
\* since createdAt, GetContext returns NotFound and removes the entry, and no
\* ListContexts returns the entry, whatever the filters.
C1_ElapsedEntryIsNotFound ==
    /\ (last.op = "get" /\ last.had # None /\ TtlElapsed(last.had[1]))
          => (last.ret = None /\ ~ODHas(contexts, last.key))
    /\ last.op = "list" => \A i \in 1..Len(last.ret) : ~TtlElapsed(last.ret[i])

\* C1, for the positive TTLs alone (what the code does guarantee)
C1_PositiveTtlOnly ==
    /\ (last.op = "get" /\ last.had # None /\ TtlElapsed(last.had[1])
            /\ last.had[1].ttl_seconds # Some(0))
          => (last.ret = None /\ ~ODHas(contexts, last.key))
    /\ last.op = "list" =>
          \A i \in 1..Len(last.ret) :
              ~(TtlElapsed(last.ret[i]) /\ last.ret[i].ttl_seconds # Some(0))

\* C2: an entry created with ttlSeconds = 0 is expired once any time has passed:
\* GetContext on its key after a non-zero delay returns NotFound.
C2_ZeroTtlExpiresAtOnce ==
    (last.op = "get" /\ last.had # None /\ last.had[1].ttl_seconds = Some(0)
        /\ now > last.had[1].created_at)
      => last.ret = None

\* C10: UpdateContext on a present (stored, live) entry with merge = true overwrites
\* exactly the keys of the payload and keeps every other key of data; with
\* merge = false the data afterwards equals the payload.
C10_UpdateMergesOrReplaces ==
    (last.op = "update" /\ last.had # None /\ ~IsExpired(last.had[1])) =>
        /\ ODHas(contexts, last.key)
        /\ LET old == last.had[1].context_data
               new == ODGet(contexts, last.key)[1].context_data
           IN  IF last.merge
               THEN /\ DOMAIN new = (DOMAIN old) \cup (DOMAIN last.data)
                    /\ \A k \in DOMAIN last.data : new[k] = last.data[k]
                    /\ \A k \in (DOMAIN old) \ (DOMAIN last.data) : new[k] = old[k]
               ELSE new = last.data

\* C10's case: a merge that overwrote x, added z and kept y
C10_Witness ==
    /\ last.op = "update" /\ last.merge /\ last.ret
    /\ last.had # None
    /\ last.had[1].context_data = [x |-> 1, y |-> 1]
    /\ ODGet(contexts, last.key) # None
    /\ ODGet(contexts, last.key)[1].context_data = [x |-> 2, y |-> 1, z |-> 2]

\* C11 (as claimed): UpdateContext returns false when the key has no entry or its
\* entry's TTL has elapsed, and then no entry's data or updatedAt is changed and no
\* entry is created; it returns true only when a live entry was updated.
C11_UpdateFalseUnlessLive ==
    [][last'.op = "update" =>
          LET had == ODGet(contexts, last'.key)
          IN  /\ last'.ret = (had # None /\ ~TtlElapsed(had[1]))
              /\ ~last'.ret =>
                    \A i \in 1..Len(contexts') :
                        \E j \in 1..Len(contexts) :
                            /\ contexts[j].key = contexts'[i].key
                            /\ contexts[j].val.context_data = contexts'[i].val.context_data
                            /\ contexts[j].val.updated_at = contexts'[i].val.updated_at
              /\ last'.ret =>
                    /\ ODHas(contexts', last'.key)
                    /\ ODGet(contexts', last'.key)[1].updated_at = now
                    /\ \A k \in DOMAIN last'.data :
                          ODGet(contexts', last'.key)[1].context_data[k] = last'.data[k]
      ]_vars

\* C11 with the code's own expiry test in place of the elapsed TTL (a TTL of 0
\* counts as no TTL): what update_context does guarantee
C11_UpdateFalseUnlessStoredLive ==
    [][last'.op = "update" =>
          LET had == ODGet(contexts, last'.key)
          IN  /\ last'.ret = (had # None /\ ~IsExpired(had[1]))
              /\ ~last'.ret =>
                    \A i \in 1..Len(contexts') :
                        \E j \in 1..Len(contexts) : contexts[j] = contexts'[i]
              /\ last'.ret =>
                    /\ ODHas(contexts', last'.key)
                    /\ ODGet(contexts', last'.key)[1].updated_at = now
      ]_vars

\* C12: CreateContext always succeeds and returns the composite key; an entry
\* already stored under that key is replaced, so a GetContext on the returned key
\* that follows immediately yields an entry with the new data, the given agent,
\* session and kind, and a createdAt of now; the key is stored once.
C12_CreateOverwrites ==
    last.op = "create" =>
        /\ last.ret = ContextKey(last.agent_id, last.session_id, last.context_type)
        /\ Cardinality({i \in 1..Len(contexts) : contexts[i].key = last.ret}) = 1
        /\ LET got == GetContextResult(last.ret)
           IN  /\ got # None
               /\ got[1].context_data = last.data
               /\ got[1].agent_id = last.agent_id
               /\ got[1].session_id = last.session_id
               /\ got[1].context_type = last.context_type
               /\ got[1].ttl_seconds = last.ttl
               /\ got[1].created_at = now
               /\ got[1].updated_at = now
        /\ GetContextStore(last.ret) = contexts

\* C12's case: an entry created earlier and updated since was replaced at a
\* later time by a create with another TTL
C12_Witness ==
    /\ last.op = "create" /\ last.replaced
    /\ now = 2
    /\ last.ttl = Some(1)
    /\ Len(contexts) = 2
    /\ GetContextResult(last.ret) # None
    /\ GetContextResult(last.ret)[1].created_at = 2
    /\ GetContextResult(last.ret)[1].context_data = [x |-> 1, y |-> 1]

\* C13 (as claimed): DeleteContext returns false if the entry is absent and true
\* if it removed an entry; an entry whose TTL has elapsed counts as absent, so
\* DeleteContext on it returns false.
C13_DeleteElapsedIsAbsent ==
    [][last'.op = "delete" =>
          LET had == ODGet(contexts, last'.key)
          IN  /\ (had = None \/ TtlElapsed(had[1])) => ~last'.ret
              /\ (had # None /\ ~TtlElapsed(had[1])) =>
                    (last'.ret /\ ~ODHas(contexts', last'.key))
      ]_vars

\* what delete_context does guarantee: it returns whether the key was stored,
\* elapsed or not, removes it, and leaves the other entries alone
C13_DeleteStoredIsTrue ==
    [][last'.op = "delete" =>
          /\ last'.ret = ODHas(contexts, last'.key)
          /\ contexts' = SelectSeq(contexts, LAMBDA it : it.key # last'.key)
      ]_vars

\* C20 (as claimed): ClearExpired removes exactly the entries whose TTL has elapsed
\* at the time of the call and returns their number; the other entries are left
\* unchanged, and immediately afterwards the store holds no expired entry.
C20_ClearRemovesElapsed ==
    [][last'.op = "clear_expired" =>
          /\ contexts' = SelectSeq(contexts, LAMBDA it : ~TtlElapsed(it.val))
          /\ last'.ret = Len(contexts) - Len(contexts')
          /\ \A i \in 1..Len(contexts') : ~TtlElapsed(contexts'[i].val)
      ]_vars

\* C20 for the entries the code's own expiry test finds (a TTL of 0 counts as no
\* TTL): what clear_expired_contexts does guarantee
C20_ClearRemovesPositiveTtlElapsed ==
    [][last'.op = "clear_expired" =>
          /\ contexts' = SelectSeq(contexts, LAMBDA it : ~IsExpired(it.val))
          /\ last'.ret = Len(contexts) - Len(contexts')
          /\ \A i \in 1..Len(contexts') :
                TtlElapsed(contexts'[i].val) => contexts'[i].val.ttl_seconds = Some(0)
      ]_vars

----------------------------------------------------------------------------
(* Claims about the context store with concurrent callers, checked under ConcSpec *)

\* C14 (as claimed): with several concurrent callers the operations on one key
\* are mutually exclusive: none fails because of another, and at the moment
\* UpdateContext returns true its data is in the entry stored under the key, so
\* no update reported successful is lost to a concurrent CreateContext or
\* DeleteContext.
C14_UpdateNotLostToConcurrentCall ==
    /\ last.op \in {"create", "get", "update", "delete"} => last.out.kind = "return"
    /\ (last.op = "update" /\ last.out.kind = "return" /\ last.out.value) =>
          /\ ODHas(contexts, last.key)
          /\ LET stored == heap[ODGet(contexts, last.key)[1]].context_data
             IN  \A k \in DOMAIN last.data :
                     k \in DOMAIN stored /\ stored[k] = last.data[k]

----------------------------------------------------------------------------
(* Claims about the decomposition engine, checked under ReasonSpec *)

RECURSIVE NodePaths(_)
\* the nodes of a tree, each named by the path of child positions leading to it
NodePaths(tree) ==
    {<<>>} \cup UNION {{<<i>> \o path : path \in NodePaths(tree.sub_questions[i])} :
                          i \in 1..Len(tree.sub_questions)}

RECURSIVE NodeAt(_, _)
NodeAt(tree, path) ==
    IF path = <<>> THEN tree ELSE NodeAt(tree.sub_questions[path[1]], Tail(path))

\* the greatest depth among the leaves of a tree
MaxLeafDepth(tree) ==
    Max({NodeAt(tree, path).depth :
            path \in {q \in NodePaths(tree) : NodeAt(tree, q).sub_questions = <<>>}})

\* the last call of Reason returned; its depth bound
ReasonReturned == qlast.op = "reason" /\ qlast.out.kind = "return"

DepthBound == IF qlast.max_depth = None THEN DefaultMaxDepth ELSE qlast.max_depth[1]

\* the tree the last call built, as stored in the history
LastRoot == reasoning_history[Len(reasoning_history)]

\* C15 (as claimed): Reason(question, ctx, maxDepth = 0) returns, for every
\* question, a tree that is the root alone, with stepsTaken = 1,
\* maxDepthReached = 0 and confidence 0.8 or 0.6.
C15_DepthZeroIsRootAlone ==
    (qlast.op = "reason" /\ qlast.max_depth = Some(0)) =>
        /\ qlast.out.kind = "return"
        /\ qlast.out.value.reasoning_tree.sub_questions = <<>>
        /\ qlast.out.value.steps_taken = 1
        /\ qlast.out.value.max_depth_reached = 0
        /\ qlast.out.value.confidence \in {Frac(8, 10), Frac(6, 10)}

\* C15 for the calls that return: what reason() does guarantee with maxDepth 0
C15_DepthZeroIsRootAloneIfReturned ==
    (ReasonReturned /\ qlast.max_depth = Some(0)) =>
        /\ qlast.out.value.reasoning_tree.sub_questions = <<>>
        /\ qlast.out.value.steps_taken = 1
        /\ qlast.out.value.max_depth_reached = 0
        /\ qlast.out.value.confidence = Frac(8, 10)

\* C16 (as claimed): Reason with maxDepth 3 on a question that contains the
\* conjunction keyword " and " decomposes the root into at least 2
\* sub-questions, one per conjunct, and the answer of the root contains the
\* answer of each of them.
C16_ConjunctionIsDecomposed ==
    (qlast.op = "reason" /\ qlast.max_depth = Some(3)
        /\ Contains(qlast.problem, " and ")) =>
        /\ qlast.out.kind = "return"
        /\ LET root == qlast.out.value.reasoning_tree
               conjuncts == SplitOn(qlast.problem, " and ")
           IN  /\ Len(root.sub_questions) >= 2
               /\ Len(root.sub_questions) = Len(conjuncts)
               /\ \A i \in 1..Len(root.sub_questions) :
                     /\ root.sub_questions[i].question = Strip(conjuncts[i])
                     /\ Contains(root.answer[1], root.sub_questions[i].answer[1])

\* C16 for the questions _is_simple_enough rejects (10 words or more, none of
\* the simple keywords), when the call returns: what reason() does guarantee
C16_LongConjunctionIsDecomposed ==
    (ReasonReturned /\ DepthBound >= 1 /\ Contains(qlast.problem, " and ")
        /\ ~IsSimpleEnough(qlast.problem)) =>
        LET root == qlast.out.value.reasoning_tree
            conjuncts == SplitOn(qlast.problem, " and ")
        IN  /\ Len(root.sub_questions) >= 2
            /\ Len(root.sub_questions) = Len(conjuncts)
            /\ \A i \in 1..Len(root.sub_questions) :
                  /\ root.sub_questions[i].question = Strip(conjuncts[i])
                  /\ Contains(root.answer[1], root.sub_questions[i].answer[1])

\* C17: in every tree returned by Reason, a node solved directly has confidence
\* 0.8 (simple or at the depth bound) or 0.6 (not decomposable), a synthesized
\* node has 0.95 times the average of its children's positive confidences (0.5
\* if none is positive), and every confidence lies in [0, 1].
C17_ConfidenceOfEveryNode ==
    ReasonReturned =>
        \A path \in NodePaths(LastRoot) :
            LET node == NodeAt(LastRoot, path)
                all == [i \in 1..Len(node.sub_questions) |->
                           node.sub_questions[i].confidence]
                positive == SelectSeq(all, LAMBDA c : c.num > 0)
            IN  /\ node.sub_questions = <<>> =>
                      node.confidence =
                          IF node.depth >= DepthBound \/ IsSimpleEnough(node.question)
                          THEN Frac(4, 5) ELSE Frac(3, 5)
                /\ (node.sub_questions # <<>> /\ positive # <<>>) =>
                      FracMul(node.confidence, Frac(20 * Len(positive), 1))
                          = FracMul(Frac(19, 1), FracSum(positive))
                /\ (node.sub_questions # <<>> /\ positive = <<>>) =>
                      node.confidence = Frac(1, 2)
                /\ FracLeq(Frac(0, 1), node.confidence)
                /\ FracLeq(node.confidence, Frac(1, 1))
                /\ node.confidence.den > 0

\* C17's case: a root synthesized from two leaves at 0.8 and a sub-question that
\* was itself synthesized (0.76): (0.8 + 0.76 + 0.8) / 3 * 0.95
C17_Witness ==
    /\ ReasonReturned
    /\ Len(LastRoot.sub_questions) = 3
    /\ LastRoot.sub_questions[1].confidence = Frac(8, 10)
    /\ LastRoot.sub_questions[2].confidence = Frac(76, 100)
    /\ LastRoot.sub_questions[2].sub_questions # <<>>
    /\ LastRoot.confidence = Frac(1121, 1500)
    /\ qlast.out.value.confidence = LastRoot.confidence

\* C18 (as claimed): Reason never fails outward: for every question, context and
\* maxDepth it returns a result in which every node carries a non-empty answer
\* and a confidence, the result's problem is the input, and stepsTaken >= 1.
C18_ReasonNeverFails ==
    qlast.op = "reason" =>
        /\ qlast.out.kind = "return"
        /\ qlast.out.value.problem = qlast.problem
        /\ qlast.out.value.steps_taken >= 1
        /\ \A path \in NodePaths(qlast.out.value.reasoning_tree) :
              LET node == NodeAt(qlast.out.value.reasoning_tree, path)
              IN  /\ TruthyStr(node.answer)
                  /\ node.confidence.num > 0

\* C18 for the contexts without a schema, or whose schema is a dict of tables
\* whose columns are dicts: there reason() does return
C18_ReasonReturnsOnSchemaOfDicts ==
    (qlast.op = "reason"
        /\ qlast.context \in {None, Some(PyDict([schema |-> SchemaOfDicts]))}) =>
        /\ qlast.out.kind = "return"
        /\ qlast.out.value.problem = qlast.problem
        /\ qlast.out.value.steps_taken >= 1
        /\ \A path \in NodePaths(qlast.out.value.reasoning_tree) :
              LET node == NodeAt(qlast.out.value.reasoning_tree, path)
              IN  /\ TruthyStr(node.answer)
                  /\ node.confidence.num > 0

\* C19: for every result of Reason, stepsTaken is the number of nodes of the
\* tree and maxDepthReached the greatest depth of its leaves, and both are
\* found again on the serialized reasoning tree of the result.
C19_StepsAndDepthSurviveSerialization ==
    ReasonReturned =>
        LET plain == qlast.out.value.reasoning_tree
        IN  /\ qlast.out.value.steps_taken = Cardinality(NodePaths(LastRoot))
            /\ qlast.out.value.max_depth_reached = MaxLeafDepth(LastRoot)
            /\ \A path \in NodePaths(LastRoot) :
                  NodeAt(LastRoot, path).depth = Len(path)
            /\ Cardinality(NodePaths(plain)) = qlast.out.value.steps_taken
            /\ MaxLeafDepth(plain) = qlast.out.value.max_depth_reached
            /\ NodePaths(plain) = NodePaths(LastRoot)
            /\ \A path \in NodePaths(plain) :
                  /\ NodeAt(plain, path).depth = NodeAt(LastRoot, path).depth
                  /\ NodeAt(plain, path).step_type
                        = StepValue(NodeAt(LastRoot, path).step_type)

\* C19's case: a tree of 7 nodes with leaves at depths 1 and 2, returned by the
\* second call
C19_Witness ==
    /\ ReasonReturned
    /\ Len(reasoning_history) = 2
    /\ qlast.out.value.steps_taken = 7
    /\ qlast.out.value.max_depth_reached = 2
    /\ \E path \in NodePaths(qlast.out.value.reasoning_tree) :
          /\ Len(path) = 1
          /\ NodeAt(qlast.out.value.reasoning_tree, path).sub_questions = <<>>

----------------------------------------------------------------------------
(* Claims about the protocol router, checked under RouterSpec *)

\* the three message types ProtocolHandler.__init__ registers no handler for
UnhandledTypes == {"context_response", "tool_response", "error"}

\* C3: RouteMessage on a message whose type has no handler returns success = false
\* and leaves the message log unchanged; on a message whose handler raises it
\* returns success = false and the log has grown by exactly that message.
C3_LogOnNoHandlerAndOnFault ==
    rlast.op = "route" =>
        /\ rlast.handler = None =>
              (~rlast.ret.success /\ message_queue = rlast.log_before)
        /\ (rlast.handler # None /\ rlast.raised) =>
              (~rlast.ret.success
                  /\ message_queue = Append(rlast.log_before, rlast.msg))

\* C3's case: a call whose handler raised, made after a call that found no handler
C3_Witness ==
    /\ rlast.op = "route" /\ rlast.handler # None /\ rlast.raised
    /\ ~rlast.ret.success
    /\ \E i \in 1..Len(created) : created[i].message_type \in UnhandledTypes
    /\ Len(message_queue) = Len(rlast.log_before) + 1

\* C4 as claimed: whenever RouteMessage found a handler, the message id is in the
\* processed collection after the call returns, whether the handler succeeded or raised.
C4_ProcessedRegardlessOfOutcome ==
    (rlast.op = "route" /\ rlast.handler # None) =>
        rlast.msg.message_id \in Range(processed_messages)

\* C4 as amended: when RouteMessage found a handler, the message id is appended to
\* the processed collection if the handler succeeded, and the collection is left
\* unchanged if the handler raised.
C4_ProcessedOnSuccessOnly ==
    (rlast.op = "route" /\ rlast.handler # None) =>
        IF rlast.raised
        THEN processed_messages = rlast.processed_before
        ELSE processed_messages =
                 Append(rlast.processed_before, rlast.msg.message_id)

\* C4's case: a handler raised after another message had been processed
C4_Witness ==
    /\ rlast.op = "route" /\ rlast.handler # None /\ rlast.raised
    /\ processed_messages # <<>>
    /\ rlast.msg.message_id \notin Range(processed_messages)
    /\ rlast.msg \in Range(message_queue)

\* C5 as claimed: each of the seven message types has a handler registered at
\* construction, the table never changes, and RouteMessage never takes the
\* no-handler branch.
C5_EveryTypeHasAHandler ==
    /\ DOMAIN message_handlers = MessageTypes
    /\ rlast.op = "route" => rlast.handler # None

\* C5 as amended: exactly four of the seven types (ContextRequest, ContextUpdate,
\* ToolCall, AgentHandoff) have a handler, one each, registered at construction;
\* the table never changes; RouteMessage takes the no-handler branch exactly for
\* the messages of the other three types (ContextResponse, ToolResponse, Error).
C5_FourTypesHaveAHandler ==
    /\ DOMAIN message_handlers = MessageTypes \ UnhandledTypes
    /\ \A t, u \in DOMAIN message_handlers :
          message_handlers[t] = message_handlers[u] => t = u
    /\ message_handlers = [t \in MessageTypes \ UnhandledTypes |-> "_handle_" \o t]
    /\ rlast.op \in {"route", "routing"} =>
          (rlast.handler = None <=> rlast.msg.message_type \in UnhandledTypes)

\* C5's case: a message of type Error was routed and found no handler
C5_Witness ==
    /\ rlast.op = "route" /\ rlast.handler = None
    /\ rlast.msg.message_type = "error"
    /\ ~rlast.ret.success

\* C6: while a handler is executing for message m, m is already the last entry
\* of the log, and it is still in the log after the handler has failed.
C6_LoggedBeforeHandled ==
    /\ rpc = "handler" =>
          /\ message_queue # <<>>
          /\ message_queue[Len(message_queue)] = rlast.msg
          /\ message_queue = Append(rlast.log_before, rlast.msg)
    /\ (rlast.op = "route" /\ rlast.handler # None /\ rlast.raised) =>
          rlast.msg \in Range(message_queue)

\* C6's case: a handler that is going to raise is executing
C6_Witness ==
    /\ rpc = "handler"
    /\ HandlerRaises(rlast.handler[1], rlast.msg)
    /\ rlast.msg \in Range(message_queue)
    /\ rlast.msg.message_id \notin Range(processed_messages)

----------------------------------------------------------------------------
(* Claims about the tool registry, checked under ToolSpec *)

\* C7: Invoke on a name that is not registered returns (does not raise) a result
\* with success = false, an error, and metadata listing exactly the names
\* registered at that moment, each once; no tool's usage counters change.
C7_UnknownToolIsAResult ==
    (tlast.op = "execute" /\ tlast.tool = None) =>
        /\ tlast.out.kind = "return"
        /\ ~tlast.out.value.success
        /\ tlast.out.value.error # None
        /\ LET names == tlast.out.value.metadata.available_tools
           IN  /\ Range(names) = {tools[i].key : i \in 1..Len(tools)}
               /\ Len(names) = Cardinality(Range(names))
               /\ tlast.name \notin Range(names)
        /\ usage_count = tlast.usage_before
        /\ last_used = tlast.used_before

\* C7's case: an unknown name invoked while two names are registered and a tool
\* has been used
C7_Witness ==
    /\ tlast.op = "execute" /\ tlast.tool = None
    /\ Len(tlast.out.value.metadata.available_tools) = 2
    /\ \E t \in ToolObjects : usage_count[t] > 0

C9_UsageCountsEveryCall ==
    \A t \in ToolObjects :
        /\ usage_count[t] = started[t].n
        /\ last_used[t] = IF started[t].at = None THEN None
                          ELSE Some(IsoFormat(started[t].at[1]))

\* C9's case: a tool called twice, the second call started later than the first
\* and its handler raised
C9_Witness ==
    /\ tlast.op = "execute" /\ tlast.tool # None
    /\ tlast.outcome.kind = "raise"
    /\ usage_count[tlast.tool[1]] = 2
    /\ last_used[tlast.tool[1]] = Some(IsoFormat(1))
    /\ calls = {}

----------------------------------------------------------------------------
(* Claims about the router's log and processed ids, checked under RouterSpec *)

\* the last n elements of a sequence, all of it when it is shorter
LastN(list, n) ==
    SubSeq(list, (IF Len(list) > n THEN Len(list) - n ELSE 0) + 1, Len(list))

\* C21: after clear_processed_messages(keepLastN), for every keepLastN >= 0, the
\* processed ids are at most keepLastN in number, and they are the most recently
\* recorded ones in their original order
C21_TrimBoundsProcessed ==
    rlast.op = "clear_processed" =>
        /\ Len(processed_messages) <= rlast.older_than_count
        /\ processed_messages = LastN(rlast.processed_before, rlast.older_than_count)

\* C21 for keepLastN >= 1, where the slice [-keepLastN:] is the tail of the list
C21_TrimBoundsProcessedFromOne ==
    (rlast.op = "clear_processed" /\ rlast.older_than_count >= 1) =>
        /\ Len(processed_messages) <= rlast.older_than_count
        /\ processed_messages = LastN(rlast.processed_before, rlast.older_than_count)

\* a trim to one id of two processed ids: the case C21's bound is about
C21_TrimHappens ==
    /\ rlast.op = "clear_processed"
    /\ Len(rlast.processed_before) = 2
    /\ Len(processed_messages) = 1

\* whether s is a prefix of t
IsPrefix(s, t) ==
    Len(s) <= Len(t) /\ SubSeq(t, 1, Len(s)) = s

\* the frame part of C22, in one step of the router
LogStep ==
    /\ IsPrefix(message_queue, message_queue')
    /\ message_queue' # message_queue =>
           (rlast'.op = "routing" /\ rlast'.handler # None)
    /\ rlast'.op = "clear_processed" => message_queue' = message_queue

\* C22: the message log is append-only; every step leaves the earlier log as a
\* prefix, only route_message with a handler present extends it,
\* clear_processed_messages leaves it unchanged, and get_message_queue(sessionID)
\* returns the log's messages of that session in routing order
C22_LogIsAppendOnly ==
    [][/\ LogStep
       /\ (rlast'.op = "get_queue" /\ rlast'.session_id # None) =>
              rlast'.ret = SelectSeq(message_queue,
                               LAMBDA msg : msg.session_id = rlast'.session_id[1])]_vars

\* C22 with the filter of get_message_queue taken for a non-empty sessionID only
C22_LogIsAppendOnlyNonEmptySession ==
    [][/\ LogStep
       /\ (rlast'.op = "get_queue" /\ TruthyStr(rlast'.session_id)) =>
              rlast'.ret = SelectSeq(message_queue,
                               LAMBDA msg : msg.session_id = rlast'.session_id[1])]_vars

----------------------------------------------------------------------------
(* Claims about absent things, checked under RegistrySpec and the others *)

\* the calls of C23 on a context, a tool and a message handler that are absent:
\* each returns its sentinel
AbsentContextToolHandlerIsAResult ==
    /\ (last.op = "get" /\ last.had = None) => last.ret = None
    /\ (last.op = "update" /\ last.had = None) => last.ret = FALSE
    /\ (last.op = "delete" /\ ~ODHas(contexts, last.key)) => last.ret \in BOOLEAN
    /\ (tlast.op = "execute" /\ tlast.tool = None) =>
           (tlast.out.kind = "return" /\ ~tlast.out.value.success)
    /\ (rlast.op = "route" /\ rlast.handler = None) => ~rlast.ret.success

\* C23: an absent context, tool, agent or message handler is reported as a
\* sentinel result and never as an exception: get_context, update_context,
\* delete_context, execute_tool, execute_task and route_message do not raise when
\* the named thing does not exist
C23_AbsentIsNeverAnException ==
    /\ AbsentContextToolHandlerIsAResult
    /\ (alast.op = "execute_task" /\ ~alast.had) => alast.out.kind = "return"

\* C23 without the agent: an absent context, tool or message handler is reported
\* as a sentinel result (under Spec, ToolSpec and RouterSpec)
C23_AbsentContextToolHandlerIsAResult ==
    AbsentContextToolHandlerIsAResult /\ alast.op = "init"

----------------------------------------------------------------------------
(* Claims about list_contexts, checked under Spec *)

\* whether an entry matches every filter that was supplied (is not None)
MatchesSupplied(context, f) ==
    /\ f[1] # None => context.agent_id = f[1][1]
    /\ f[2] # None => context.session_id = f[2][1]
    /\ f[3] # None => context.context_type = f[3][1]

\* C24: list_contexts is a pure read; it returns exactly the non-expired entries
\* that match every supplied filter, and it leaves the store unchanged: the
\* expired entries it skips are still stored afterwards
C24_ListIsAPureRead ==
    [][last'.op = "list" =>
          /\ contexts' = contexts
          /\ last'.ret = SelectSeq(ODValues(contexts),
                            LAMBDA c : ~TtlElapsed(c) /\ MatchesSupplied(c, last'.filters))]_vars

\* C24 where no stored entry has a TTL of 0 and no filter is the empty string
C24_ListIsAPureReadPositiveTtl ==
    [][(/\ last'.op = "list"
        /\ \A i \in 1..Len(contexts) : contexts[i].val.ttl_seconds # Some(0)
        /\ \A j \in 1..3 : last'.filters[j] # Some("")) =>
          /\ contexts' = contexts
          /\ last'.ret = SelectSeq(ODValues(contexts),
                            LAMBDA c : ~TtlElapsed(c) /\ MatchesSupplied(c, last'.filters))]_vars

\* a listing that skipped an expired entry, which is still stored
C24_SkippedEntryIsStillStored ==
    /\ last.op = "list"
    /\ \E i \in 1..Len(contexts) :
           /\ TtlElapsed(contexts[i].val)
           /\ contexts[i].val \notin Range(last.ret)

----------------------------------------------------------------------------
(* Claims about the query history, checked under DbSpec *)

\* C25: after any sequence of additions to a connection's history, its
\* recent-query buffer holds at most 50 queries, the most recently added ones in
\* insertion order; an addition for an unknown connection id changes nothing
C25_HistoryIsBoundedFifo ==
    /\ \A c \in DOMAIN database_contexts :
           /\ Len(database_contexts[c].recent_queries) <= 50
           /\ database_contexts[c].recent_queries = LastN(added[c], 50)
    /\ (dlast.op = "add_query" /\ ~dlast.known) => database_contexts = dlast.before

\* C25's case: more than 50 queries were added, so the oldest were evicted, and
\* an addition for an unknown connection id was made
C25_Witness ==
    /\ "c1" \in DOMAIN database_contexts
    /\ Len(added["c1"]) > 50
    /\ dlast.op = "add_query" /\ ~dlast.known

\* the sum of the counts of a histogram
RECURSIVE SumCounts(_)
SumCounts(query_patterns) ==
    IF DOMAIN query_patterns = {} THEN 0
    ELSE LET t == CHOOSE t \in DOMAIN query_patterns : TRUE
         IN  query_patterns[t]
                 + SumCounts([u \in DOMAIN query_patterns \ {t} |-> query_patterns[u]])

\* C29: add_query_to_history is all-or-nothing; for every query string, an empty
\* or whitespace-only one included, the call records the query in both the
\* recent-query buffer and the verb histogram or changes neither, so while fewer
\* than 50 queries have been added the histogram counts sum to the buffer length
C29_AddIsAllOrNothing ==
    /\ (dlast.op = "add_query" /\ dlast.known) =>
           LET before == dlast.before[dlast.connection_id]
               after  == database_contexts[dlast.connection_id]
           IN  (after.recent_queries # before.recent_queries)
                   <=> (after.query_patterns # before.query_patterns)
    /\ \A c \in DOMAIN database_contexts :
           Len(added[c]) < 50 =>
               SumCounts(database_contexts[c].query_patterns)
                   = Len(database_contexts[c].recent_queries)

\* C29 for the calls that return: the query is in the buffer and in the histogram
C29_AddRecordsBothWhenItReturns ==
    (dlast.op = "add_query" /\ dlast.known /\ dlast.out.kind = "return") =>
        LET before == dlast.before[dlast.connection_id]
            after  == database_contexts[dlast.connection_id]
        IN  /\ after.recent_queries # before.recent_queries
            /\ SumCounts(after.query_patterns) = SumCounts(before.query_patterns) + 1

----------------------------------------------------------------------------
(* Claims about the depth of reasoning trees, checked under ReasonSpec *)

\* C26: decomposition is bounded by depth; in every tree returned by reason() with
\* maxDepth >= 0 the root has depth 0, each child has its parent's depth + 1, no
\* node is deeper than maxDepth, every node at depth maxDepth is a leaf, and
\* max_depth_reached <= maxDepth
C26_DecompositionIsBoundedByDepth ==
    ReasonReturned =>
        LET tree == qlast.out.value.reasoning_tree
        IN  /\ tree.depth = 0
            /\ \A path \in NodePaths(tree) :
                   LET node == NodeAt(tree, path)
                   IN  /\ \A i \in 1..Len(node.sub_questions) :
                              node.sub_questions[i].depth = node.depth + 1
                       /\ node.depth <= DepthBound
                       /\ node.depth = DepthBound => node.sub_questions = <<>>
            /\ qlast.out.value.max_depth_reached <= DepthBound

\* C26's case: a call with maxDepth 1 returned a tree with nodes at depth 1, for a
\* problem that is decomposed to depth 2 when the bound is 3
C26_Witness ==
    /\ ReasonReturned
    /\ qlast.max_depth = Some(1)
    /\ qlast.out.value.max_depth_reached = 1
    /\ ReasonTable[<<qlast.problem, qlast.context, Some(3)>>].value.max_depth_reached = 2

----------------------------------------------------------------------------
(* Claims about lazy expiry with concurrent callers, checked under ConcSpec *)

\* C27: lazy-expiry deletion is safe under concurrent callers; when two callers
\* run get_context (or get_context and clear_expired_contexts or delete_context)
\* on the same expired key with their steps interleaved, each call completes with
\* its sentinel outcome and none faults because the other removed the entry
C27_LazyExpiryIsSafe ==
    /\ last.op \in {"get", "clear_expired"} => last.out.kind = "return"
    /\ (last.op = "delete" /\ last.on_expired) => last.out.kind = "return"

\* C27 for a call whose statements run one after the other with no step of
\* another caller in between: it returns
C27_LazyExpiryReturnsWhenAlone ==
    [][(/\ last'.op \in {"get", "clear_expired", "delete"}
        /\ last.op = "step" /\ last.thread = last'.thread) =>
           last'.out.kind = "return"]_vars

----------------------------------------------------------------------------
(* Claims about the registry of agents, checked under AgentSpec *)

\* the registered agents of a type
RegisteredOfType(agent_type) ==
    {agents[id] : id \in {i \in DOMAIN agents : agents[i].agent_type = agent_type}}

\* C28: the type index stays consistent with the agent table after any sequence
\* of register and unregister calls, an id registered twice or again with another
\* type included: get_by_type(t) returns exactly the currently registered agents
\* whose type is t, each exactly once
C28_TypeIndexIsConsistent ==
    glast.op = "get_by_type" =>
        /\ Range(glast.ret) = RegisteredOfType(glast.agent_type)
        /\ Len(glast.ret) = Cardinality(Range(glast.ret))

\* the part of C28 the index does keep: every registered agent of type t is among
\* the agents get_by_type(t) returns, and every agent returned is registered
C28_TypeIndexCoversRegistered ==
    glast.op = "get_by_type" =>
        /\ RegisteredOfType(glast.agent_type) \subseteq Range(glast.ret)
        /\ Range(glast.ret) \subseteq {agents[id] : id \in DOMAIN agents}

----------------------------------------------------------------------------
(* Claims about an agent's tasks, checked under TaskSpec *)

\* the tasks whose run_task call is over
FinishedTasks ==
    {tasks[i].val : i \in {j \in 1..Len(tasks) : tasks[j].key \notin running}}

\* C30: an agent's status reflects its running tasks under interleaved run_task
\* calls; the status is RUNNING whenever a run_task call has started and not yet
\* finished, it is IDLE or FAILED only when no task is in flight, and every task
\* created by run_task ends COMPLETED or FAILED with a completed_at timestamp
C30_StatusReflectsRunningTasks ==
    /\ running # {} => status = "running"
    /\ status \in {"idle", "failed"} => running = {}
    /\ \A task \in FinishedTasks :
           task.status \in {"completed", "failed"} /\ task.completed_at # None

\* the part of C30 that run_task keeps: the status is RUNNING only while a call
\* is in flight, and every finished task is COMPLETED or FAILED with a timestamp
C30_TasksEndCompletedOrFailed ==
    /\ status = "running" => running # {}
    /\ \A task \in FinishedTasks :
           task.status \in {"completed", "failed"} /\ task.completed_at # None

====
